---- MODULE Spec2Model ----
(***************************************************************************)
(* TechDocAI: the localStorage-backed document and knowledge-file          *)
(* repositories (services/localStorageManager.ts) and their callers.       *)
(*                                                                         *)
(* Representation.  A JavaScript object is a function from the property    *)
(* names it carries to their values; a property whose value is undefined   *)
(* is the same as an absent one (JSON.stringify drops it, reading it       *)
(* yields undefined, and the only `in` test of the code is on `versions`,  *)
(* which the code never sets to undefined).  A localStorage item is a      *)
(* blob: what getItem returns, classified by what JSON.parse and the       *)
(* array operations of the code do with it.                                *)
(***************************************************************************)
EXTENDS Integers, Sequences, FiniteSets, TLC

\* ------------------------------------------------------------------------
\* Bounds of the model
\* ------------------------------------------------------------------------
NumIds == 2
MaxTime == 2

DocIdNames == <<"doc_1", "doc_2", "doc_3", "doc_4">>
DocIds == {DocIdNames[i] : i \in 1..NumIds}
\* an id no stored document ever carries
UnknownId == "doc_0"

FileIds == {"file_1", "file_2"}

\* ISO-8601 strings as produced by Date.prototype.toISOString
IsoStrings == <<"2024-01-01T00:00:00.000Z", "2024-01-02T00:00:00.000Z",
                "2024-01-03T00:00:00.000Z", "2024-01-04T00:00:00.000Z">>
Times == {IsoStrings[i] : i \in 1..MaxTime}
Iso(i) == IsoStrings[i]

\* new Date(s).getTime(): the instant an ISO string denotes (in days here)
DateGetTime(s) == CHOOSE i \in 1..Len(IsoStrings) : IsoStrings[i] = s

\* ------------------------------------------------------------------------
\* JavaScript objects
\* ------------------------------------------------------------------------
Has(o, k) == k \in DOMAIN o

\* a JSON value that is not an array (null, a number, a string, an object)
NotAnArray == <<[jsonNull |-> TRUE]>>
IsArray(v) == v # NotAnArray

\* Array.prototype.filter(d => d.id !== id)
RECURSIVE FilterOutId(_, _)
FilterOutId(seq, id) ==
    IF seq = <<>> THEN <<>>
    ELSE IF Head(seq).id # id
         THEN <<Head(seq)>> \o FilterOutId(Tail(seq), id)
         ELSE FilterOutId(Tail(seq), id)

IdsOf(seq) == {seq[i].id : i \in 1..Len(seq)}

\* ------------------------------------------------------------------------
\* types.ts
\* ------------------------------------------------------------------------
\* content: the lines of the section text
DocumentSection == [title |-> "Overview", content |-> <<"text">>]

\* a DocumentVersion saved at time t by the current user
Version(t) ==
    [title |-> "Design", sections |-> <<DocumentSection>>,
     docType |-> "High-Level Design", savedAt |-> t, savedBy |-> "user-1"]

\* a version record that carries no savedAt
VersionNoSavedAt ==
    [title |-> "Draft", sections |-> <<DocumentSection>>,
     docType |-> "Low-Level Design", contextFileNames |-> <<"notes.txt">>]

StoredDocument(id, c, vs) == [id |-> id, createdAt |-> c, versions |-> vs]

KnowledgeFile(id, c) ==
    [id |-> id, name |-> "notes.txt", content |-> "text", createdAt |-> c,
     size |-> 4, type |-> "text/plain"]

\* ------------------------------------------------------------------------
\* localStorage items
\* ------------------------------------------------------------------------
\* getItem returns null: the key is not set
NullBlob == [kind |-> "null", recs |-> <<>>]
\* the empty string: falsy, so it is never parsed
EmptyBlob == [kind |-> "empty", recs |-> <<>>]
\* a non-empty string JSON.parse throws on
UnparseableBlob == [kind |-> "unparseable", recs |-> <<>>]
\* valid JSON that is not an array of objects (.map or `in` throws TypeError)
NotArrayBlob == [kind |-> "notarray", recs |-> <<>>]

\* JSON.stringify of an array of objects: properties whose value is
\* undefined are dropped, which the representation of objects already does
JSONstringify(seq) == [kind |-> "json", recs |-> seq]

\* JSON.parse succeeds and yields an array of objects
Parses(blob) == blob.kind = "json"
JSONparse(blob) == blob.recs

\* if (stored): a non-empty string
Truthy(blob) == blob.kind \notin {"null", "empty"}

\* ------------------------------------------------------------------------
\* services/localStorageManager.ts: documents
\* ------------------------------------------------------------------------
NoError == "none"
CorruptedDocuments ==
    "Could not load documents from local storage. The data might be corrupted and has been cleared."
StorageFullDocuments ==
    "Local storage is full. Please remove some documents to save new ones."
UnexpectedSaveDocument == "An unexpected error occurred while saving the document."
UnexpectedDeleteDocument == "An unexpected error occurred while deleting the document."
\* the message thrown inside saveDocument's try block for an empty version list
NoVersionsMessage == "Cannot save a document with no versions."

\* the legacy property each property of the synthesized first version is read from
FirstVersionSource ==
    [title |-> "title", sections |-> "sections", docType |-> "docType",
     contextFileNames |-> "contextFileNames", savedAt |-> "createdAt",
     savedBy |-> "lastModifiedBy"]

\* the legacy property each property of the migrated document is read from
MigratedSource == [id |-> "id", createdAt |-> "createdAt", sharedWith |-> "sharedWith"]

\* { k: doc[src[k]] } for the properties that are defined in doc
PickFrom(doc, src) ==
    [k \in {f \in DOMAIN src : Has(doc, src[f])} |-> doc[src[k]]]

migrateDocument_Always(doc) ==
    PickFrom(doc, MigratedSource) @@
        [versions |-> <<PickFrom(doc, FirstVersionSource)>>]

migrateDocument_NoSavedAt(doc) ==
    IF Has(doc, "versions") /\ IsArray(doc.versions)
    THEN doc
    ELSE PickFrom(doc, MigratedSource) @@
            [versions |-> <<PickFrom(doc, [FirstVersionSource EXCEPT !.savedAt = "savedAt"])>>]

migrateDocument(doc) ==
    IF Has(doc, "versions") /\ IsArray(doc.versions)
    THEN doc
    ELSE PickFrom(doc, MigratedSource) @@
            [versions |-> <<PickFrom(doc, FirstVersionSource)>>]

MapMigrate(recs) == [i \in 1..Len(recs) |-> migrateDocument(recs[i])]

\* a.versions[a.versions.length - 1]?.savedAt || a.createdAt
LatestSavedAt_First(d) ==
    IF Len(d.versions) > 0 /\ Has(d.versions[1], "savedAt")
    THEN d.versions[1].savedAt
    ELSE d.createdAt

LatestSavedAt(d) ==
    IF Len(d.versions) > 0 /\ Has(d.versions[Len(d.versions)], "savedAt")
    THEN d.versions[Len(d.versions)].savedAt
    ELSE d.createdAt

DocTime(d) == DateGetTime(LatestSavedAt(d))
FileTime(f) == DateGetTime(f.createdAt)

Range(seq) == {seq[i] : i \in 1..Len(seq)}

\* Array.prototype.sort with the comparator time(b) - time(a): a stable sort,
\* newest first (time: the function from the elements to their instants).
\* x goes behind every element that is not older than it.
RECURSIVE InsertNewestFirst(_, _, _)
InsertNewestFirst(sorted, x, time) ==
    IF sorted = <<>> THEN <<x>>
    ELSE IF time[Head(sorted)] >= time[x]
         THEN <<Head(sorted)>> \o InsertNewestFirst(Tail(sorted), x, time)
         ELSE <<x>> \o sorted

RECURSIVE SortNewestFirst(_, _)
SortNewestFirst(seq, time) ==
    IF seq = <<>> THEN <<>>
    ELSE InsertNewestFirst(SortNewestFirst(SubSeq(seq, 1, Len(seq) - 1), time),
                           seq[Len(seq)], time)

SortDocuments(docs) == SortNewestFirst(docs, [d \in Range(docs) |-> DocTime(d)])
SortFiles(files) == SortNewestFirst(files, [f \in Range(files) |-> FileTime(f)])

\* The outcome of a call: the error it throws (NoError when it returns), the
\* value it returns, and the item left under the key.
Outcome(e, r, b) == [err |-> e, result |-> r, store |-> b]

getStoredDocuments_NoRemove(blob) ==
    IF ~Truthy(blob) THEN Outcome(NoError, <<>>, blob)
    ELSE IF Parses(blob)
         THEN Outcome(NoError, SortDocuments(MapMigrate(JSONparse(blob))), blob)
         ELSE Outcome(CorruptedDocuments, <<>>, blob)

getStoredDocuments(blob) ==
    IF ~Truthy(blob) THEN Outcome(NoError, <<>>, blob)
    ELSE IF Parses(blob)
         THEN Outcome(NoError, SortDocuments(MapMigrate(JSONparse(blob))), blob)
         ELSE Outcome(CorruptedDocuments, <<>>, NullBlob)

\* !doc.versions || doc.versions.length === 0
NoVersions(doc) == ~Has(doc, "versions") \/ Len(doc.versions) = 0

\* `full`: localStorage.setItem throws QuotaExceededError and leaves the item
\* as it was (Web Storage: setItem is atomic)
saveDocument_ReplaceOnly(doc, blob, full) ==
    LET existing == getStoredDocuments(blob) IN
    IF existing.err # NoError
    THEN Outcome(UnexpectedSaveDocument, <<>>, existing.store)
    ELSE IF NoVersions(doc)
    THEN Outcome(UnexpectedSaveDocument, <<>>, existing.store)
    ELSE IF full
    THEN Outcome(StorageFullDocuments, <<>>, existing.store)
    ELSE Outcome(NoError, <<>>,
                 JSONstringify([i \in 1..Len(existing.result) |->
                                   IF existing.result[i].id = doc.id
                                   THEN doc ELSE existing.result[i]]))

saveDocument_NoFilter(doc, blob, full) ==
    LET existing == getStoredDocuments(blob) IN
    IF existing.err # NoError
    THEN Outcome(UnexpectedSaveDocument, <<>>, existing.store)
    ELSE IF NoVersions(doc)
    THEN Outcome(UnexpectedSaveDocument, <<>>, existing.store)
    ELSE IF full
    THEN Outcome(StorageFullDocuments, <<>>, existing.store)
    ELSE Outcome(NoError, <<>>, JSONstringify(<<doc>> \o existing.result))

saveDocument_QuotaGeneric(doc, blob, full) ==
    LET existing == getStoredDocuments(blob) IN
    IF existing.err # NoError
    THEN Outcome(UnexpectedSaveDocument, <<>>, existing.store)
    ELSE IF NoVersions(doc)
    THEN Outcome(UnexpectedSaveDocument, <<>>, existing.store)
    ELSE IF full
    THEN Outcome(UnexpectedSaveDocument, <<>>, existing.store)
    ELSE Outcome(NoError, <<>>,
                 JSONstringify(<<doc>> \o FilterOutId(existing.result, doc.id)))

\* the other records are written back as they were read from the item
saveDocument_RawOthers(doc, blob, full) ==
    LET existing == getStoredDocuments(blob) IN
    IF existing.err # NoError
    THEN Outcome(UnexpectedSaveDocument, <<>>, existing.store)
    ELSE IF NoVersions(doc)
    THEN Outcome(UnexpectedSaveDocument, <<>>, existing.store)
    ELSE IF full
    THEN Outcome(StorageFullDocuments, <<>>, existing.store)
    ELSE Outcome(NoError, <<>>,
                 JSONstringify(<<doc>> \o FilterOutId(JSONparse(blob), doc.id)))

\* Every throw inside the try block is caught; the catch rethrows the
\* storage-full message for a QuotaExceededError and the generic message for
\* anything else (the Error of getStoredDocuments, the Error of the version
\* check, both named "Error").
saveDocument(doc, blob, full) ==
    LET existing == getStoredDocuments(blob) IN
    IF existing.err # NoError
    THEN Outcome(UnexpectedSaveDocument, <<>>, existing.store)
    ELSE IF NoVersions(doc)
    THEN Outcome(UnexpectedSaveDocument, <<>>, existing.store)
    ELSE IF full
    THEN Outcome(StorageFullDocuments, <<>>, existing.store)
    ELSE Outcome(NoError, <<>>,
                 JSONstringify(<<doc>> \o FilterOutId(existing.result, doc.id)))

deleteDocument_ThrowsOnUnknown(docId, blob, full) ==
    LET existing == getStoredDocuments(blob) IN
    IF existing.err # NoError
    THEN Outcome(UnexpectedDeleteDocument, <<>>, existing.store)
    ELSE IF full \/ docId \notin IdsOf(existing.result)
    THEN Outcome(UnexpectedDeleteDocument, <<>>, existing.store)
    ELSE Outcome(NoError, <<>>, JSONstringify(FilterOutId(existing.result, docId)))

deleteDocument(docId, blob, full) ==
    LET existing == getStoredDocuments(blob) IN
    IF existing.err # NoError
    THEN Outcome(UnexpectedDeleteDocument, <<>>, existing.store)
    ELSE IF full
    THEN Outcome(UnexpectedDeleteDocument, <<>>, existing.store)
    ELSE Outcome(NoError, <<>>, JSONstringify(FilterOutId(existing.result, docId)))

\* ------------------------------------------------------------------------
\* services/localStorageManager.ts: knowledge files
\* ------------------------------------------------------------------------
CorruptedKnowledgeFiles ==
    "Could not load knowledge files from local storage. The data might be corrupted and has been cleared."
StorageFullKnowledgeFiles ==
    "Local storage is full. Please remove some documents or knowledge files to save new ones."
UnexpectedSaveKnowledgeFile == "An unexpected error occurred while saving the knowledge file."
UnexpectedDeleteKnowledgeFile == "An unexpected error occurred while deleting the knowledge file."

getKnowledgeFiles_NoSort(blob) ==
    IF ~Truthy(blob) THEN Outcome(NoError, <<>>, blob)
    ELSE IF Parses(blob)
         THEN Outcome(NoError, JSONparse(blob), blob)
         ELSE Outcome(CorruptedKnowledgeFiles, <<>>, NullBlob)

getKnowledgeFiles(blob) ==
    IF ~Truthy(blob) THEN Outcome(NoError, <<>>, blob)
    ELSE IF Parses(blob)
         THEN Outcome(NoError, SortFiles(JSONparse(blob)), blob)
         ELSE Outcome(CorruptedKnowledgeFiles, <<>>, NullBlob)

\* the file is put in front of all the files read, the one of its id included
saveKnowledgeFile_NoFilter(file, blob, full) ==
    LET existing == getKnowledgeFiles(blob) IN
    IF existing.err # NoError
    THEN Outcome(UnexpectedSaveKnowledgeFile, <<>>, existing.store)
    ELSE IF full
    THEN Outcome(StorageFullKnowledgeFiles, <<>>, existing.store)
    ELSE Outcome(NoError, <<>>, JSONstringify(<<file>> \o existing.result))

saveKnowledgeFile(file, blob, full) ==
    LET existing == getKnowledgeFiles(blob) IN
    IF existing.err # NoError
    THEN Outcome(UnexpectedSaveKnowledgeFile, <<>>, existing.store)
    ELSE IF full
    THEN Outcome(StorageFullKnowledgeFiles, <<>>, existing.store)
    ELSE Outcome(NoError, <<>>,
                 JSONstringify(<<file>> \o FilterOutId(existing.result, file.id)))

deleteKnowledgeFile(fileId, blob, full) ==
    LET existing == getKnowledgeFiles(blob) IN
    IF existing.err # NoError
    THEN Outcome(UnexpectedDeleteKnowledgeFile, <<>>, existing.store)
    ELSE IF full
    THEN Outcome(UnexpectedDeleteKnowledgeFile, <<>>, existing.store)
    ELSE Outcome(NoError, <<>>, JSONstringify(FilterOutId(existing.result, fileId)))

\* ------------------------------------------------------------------------
\* components/DocumentGenerator.tsx: DocumentViewer, the state updaters
\* ------------------------------------------------------------------------
\* Section text is a sequence of lines: the string is the lines joined by
\* "\n".  The lines of the model are text lines without backticks, the empty
\* line, and the fence lines below, in which [fence] stands for the three
\* backticks of a Markdown code fence.
MermaidFence == "[fence]mermaid"
FenceLines == {"[fence]", "[fence]mermaid", "[fence]js"}

\* the line starts with three backticks
StartsWithFence(line) == line \in FenceLines

\* { ...o, ...upd }
Spread(o, upd) == upd @@ o

\* arr[i] for a JavaScript index i: undefined outside 0..length-1
Defined(arr, i) == i >= 0 /\ i < Len(arr)
At(arr, i) == arr[i + 1]

\* One match of /[fence]mermaid\n([\s\S]*?)\n[fence]/ starting at line p: the line is
\* "[fence]mermaid", the group is the shortest run of text that is followed by
\* "\n[fence]", so the match ends with the first three characters of the first
\* line from p + 2 on that starts with a fence (the group holds at least one
\* line, which may be empty).  No match: 0.
MatchEnd(lines, p) ==
    IF lines[p] = MermaidFence
       /\ \E j \in (p + 2)..Len(lines) : StartsWithFence(lines[j])
    THEN CHOOSE j \in (p + 2)..Len(lines) :
            /\ StartsWithFence(lines[j])
            /\ \A k \in (p + 2)..(j - 1) : ~StartsWithFence(lines[k])
    ELSE 0

\* The matches of the global regex from line p on, left to right, each as
\* <<first line, last line>>.  What is left of the last line of a match
\* ("", "mermaid", "js") holds no backtick, so the scan resumes on the next
\* line.
RECURSIVE mermaidRegex(_, _)
mermaidRegex(lines, p) ==
    IF p > Len(lines) THEN <<>>
    ELSE IF MatchEnd(lines, p) # 0
         THEN <<<<p, MatchEnd(lines, p)>>>> \o mermaidRegex(lines, MatchEnd(lines, p) + 1)
         ELSE mermaidRegex(lines, p + 1)

\* content.replace(mermaidRegex, match => ...): the match numbered blockIndex
\* becomes "[fence]mermaid\n" + newCode + "\n[fence]", every other match is returned
\* as it is.  The lines of the group are replaced by the lines of newCode; the
\* rest of the closing line stays.
ReplaceDiagram(lines, blockIndex, newCode) ==
    LET matches == mermaidRegex(lines, 1) IN
    IF Defined(matches, blockIndex)
    THEN LET m == At(matches, blockIndex) IN
         SubSeq(lines, 1, m[1]) \o newCode \o SubSeq(lines, m[2], Len(lines))
    ELSE lines

\* blockCount after the replace: the number of matches minus one
BlockCount(lines) == Len(mermaidRegex(lines, 1)) - 1

\* the sections of the latest version of doc
LatestSections(doc) == doc.versions[Len(doc.versions)].sections

\* MarkdownRenderer shows each fenced mermaid block of a section as a
\* diagram with an edit button.  The fenced code blocks of a Markdown text
\* from line p on: a block opens
\* with a line that starts with a fence (the rest of the line is its tag)
\* and closes with the next line that is a bare fence, or with the end of
\* the text.
RECURSIVE FencedBlocks(_, _)
FencedBlocks(lines, p) ==
    IF p > Len(lines) THEN <<>>
    ELSE IF StartsWithFence(lines[p])
         THEN LET closes == {j \in (p + 1)..Len(lines) : lines[j] = "[fence]"}
                  close == IF closes = {} THEN Len(lines) + 1
                           ELSE CHOOSE j \in closes : \A k \in closes : j <= k
              IN <<[tag |-> lines[p], open |-> p, close |-> close]>>
                     \o FencedBlocks(lines, close + 1)
         ELSE FencedBlocks(lines, p + 1)

\* the fenced blocks tagged mermaid, in order of appearance
MermaidBlocks(lines) ==
    SelectSeq(FencedBlocks(lines, 1), LAMBDA b : b.tag = MermaidFence)

\* the blockIndex values of the edit buttons of a section
RenderedBlockIndexes(lines) == 0..(Len(MermaidBlocks(lines)) - 1)

\* the mermaidCode the edit button of block blockIndex passes on: the lines
\* between its fences
RenderedCode(lines, blockIndex) ==
    LET b == At(MermaidBlocks(lines), blockIndex)
    IN SubSeq(lines, b.open + 1, b.close - 1)

\* window.mermaid.parse(text) returns: the texts it throws on are those in
\* which an arrow has no target
InvalidCodes == {<<"graph X", "X -->">>}
MermaidParses(text) == text \notin InvalidCodes

\* MermaidEditorModal as it is after mounting with initialCode and running
\* its effects: code and previewCode are initialCode, error is set when
\* the syntax check of previewCode threw
MountModal(initialCode) ==
    [mounted |-> TRUE, code |-> initialCode, previewCode |-> initialCode,
     error |-> ~MermaidParses(initialCode)]

\* sectionToUpdate.comments || []
CommentsOf(section) == IF Has(section, "comments") THEN section.comments ELSE <<>>

\* handleTitleChange: the function passed to setEditableDoc
TitleUpdater(prevDoc, newTitle) ==
    LET latestVersionIndex == Len(prevDoc.versions) - 1 IN
    IF latestVersionIndex < 0 THEN prevDoc
    ELSE LET latestVersion == Spread(At(prevDoc.versions, latestVersionIndex),
                                     [title |-> newTitle])
         IN Spread(prevDoc, [versions |->
                [prevDoc.versions EXCEPT ![latestVersionIndex + 1] = latestVersion]])

\* newSections[sectionIndex] is assigned without the test of oldSection
SectionUpdater_NoGuard(prevDoc, sectionIndex, field, value) ==
    LET latestVersionIndex == Len(prevDoc.versions) - 1 IN
    IF latestVersionIndex < 0 THEN prevDoc
    ELSE LET latestVersion == At(prevDoc.versions, latestVersionIndex)
             newSections == latestVersion.sections
             assigned ==
                 IF Defined(newSections, sectionIndex)
                 THEN [newSections EXCEPT ![sectionIndex + 1] =
                          Spread(At(newSections, sectionIndex), field :> value)]
                 ELSE IF sectionIndex = Len(newSections)
                      THEN Append(newSections, field :> value)
                      ELSE newSections
         IN Spread(prevDoc, [versions |->
                [prevDoc.versions EXCEPT ![latestVersionIndex + 1] =
                    Spread(latestVersion, [sections |-> assigned])]])

\* the section is rebuilt from the edited field alone
SectionUpdater_WholeSection(prevDoc, sectionIndex, field, value) ==
    LET latestVersionIndex == Len(prevDoc.versions) - 1 IN
    IF latestVersionIndex < 0 THEN prevDoc
    ELSE LET latestVersion == At(prevDoc.versions, latestVersionIndex)
             newSections == latestVersion.sections
         IN IF Defined(newSections, sectionIndex)
            THEN LET updated == Spread(latestVersion, [sections |->
                         [newSections EXCEPT ![sectionIndex + 1] = field :> value]])
                 IN Spread(prevDoc, [versions |->
                        [prevDoc.versions EXCEPT ![latestVersionIndex + 1] = updated]])
            ELSE prevDoc

\* handleSectionChange: the function passed to setEditableDoc
SectionUpdater(prevDoc, sectionIndex, field, value) ==
    LET latestVersionIndex == Len(prevDoc.versions) - 1 IN
    IF latestVersionIndex < 0 THEN prevDoc
    ELSE LET latestVersion == At(prevDoc.versions, latestVersionIndex)
             newSections == latestVersion.sections
         IN IF Defined(newSections, sectionIndex)
            THEN LET oldSection == At(newSections, sectionIndex)
                     updated == Spread(latestVersion, [sections |->
                         [newSections EXCEPT ![sectionIndex + 1] =
                             Spread(oldSection, field :> value)]])
                 IN Spread(prevDoc, [versions |->
                        [prevDoc.versions EXCEPT ![latestVersionIndex + 1] = updated]])
            ELSE prevDoc

\* The result of an updater that may call saveDocument: the next state, and a
\* flag with the document handed to saveDocument when it is called.
Updated(next, saves, saved) == [next |-> next, saves |-> saves, saved |-> saved]

\* the new comment is put in front of the existing ones
CommentUpdater_Prepend(prevDoc, sectionIndex, newComment) ==
    LET latestVersionIndex == Len(prevDoc.versions) - 1 IN
    IF latestVersionIndex < 0 THEN [next |-> prevDoc, saves |-> FALSE, saved |-> prevDoc]
    ELSE LET latestVersion == At(prevDoc.versions, latestVersionIndex)
             newSections == latestVersion.sections
             updatedDoc ==
                 IF Defined(newSections, sectionIndex)
                 THEN LET sectionToUpdate == At(newSections, sectionIndex)
                          updatedSection == Spread(sectionToUpdate, [comments |->
                              <<newComment>> \o CommentsOf(sectionToUpdate)])
                          updated == Spread(latestVersion, [sections |->
                              [newSections EXCEPT ![sectionIndex + 1] = updatedSection]])
                      IN Spread(prevDoc, [versions |->
                             [prevDoc.versions EXCEPT ![latestVersionIndex + 1] = updated]])
                 ELSE prevDoc
         IN [next |-> updatedDoc, saves |-> TRUE, saved |-> updatedDoc]

\* handleAddComment: the function passed to setEditableDoc.  updatedDoc is
\* saved whether or not the section was found.
CommentUpdater(prevDoc, sectionIndex, newComment) ==
    LET latestVersionIndex == Len(prevDoc.versions) - 1 IN
    IF latestVersionIndex < 0 THEN Updated(prevDoc, FALSE, prevDoc)
    ELSE LET latestVersion == At(prevDoc.versions, latestVersionIndex)
             newSections == latestVersion.sections
             updatedDoc ==
                 IF Defined(newSections, sectionIndex)
                 THEN LET sectionToUpdate == At(newSections, sectionIndex)
                          updatedSection == Spread(sectionToUpdate, [comments |->
                              Append(CommentsOf(sectionToUpdate), newComment)])
                          updated == Spread(latestVersion, [sections |->
                              [newSections EXCEPT ![sectionIndex + 1] = updatedSection]])
                      IN Spread(prevDoc, [versions |->
                             [prevDoc.versions EXCEPT ![latestVersionIndex + 1] = updated]])
                 ELSE prevDoc
         IN Updated(updatedDoc, TRUE, updatedDoc)

\* handleSaveDiagram: the function passed to setEditableDoc
DiagramUpdater(prevDoc, sectionIndex, blockIndex, newCode) ==
    LET latestVersionIndex == Len(prevDoc.versions) - 1 IN
    IF latestVersionIndex < 0 THEN Updated(prevDoc, FALSE, prevDoc)
    ELSE LET latestVersion == At(prevDoc.versions, latestVersionIndex)
             updatedSections == latestVersion.sections
         IN IF ~Defined(updatedSections, sectionIndex)
            THEN Updated(prevDoc, FALSE, prevDoc)
            ELSE LET sectionToUpdate == At(updatedSections, sectionIndex)
                     newContent == ReplaceDiagram(sectionToUpdate.content, blockIndex, newCode)
                 IN IF BlockCount(sectionToUpdate.content) < blockIndex
                    THEN Updated(prevDoc, FALSE, prevDoc)
                    ELSE LET updated == Spread(latestVersion, [sections |->
                                 [updatedSections EXCEPT ![sectionIndex + 1] =
                                     Spread(sectionToUpdate, [content |-> newContent])]])
                             newDoc == Spread(prevDoc, [versions |->
                                 [prevDoc.versions EXCEPT ![latestVersionIndex + 1] = updated]])
                         IN Updated(newDoc, TRUE, newDoc)

\* ------------------------------------------------------------------------
\* Inputs
\* ------------------------------------------------------------------------
\* a legacy flat record, as written before documents were versioned
LegacyRecord(id, c) ==
    [id |-> id, createdAt |-> c, title |-> "Legacy", sections |-> <<DocumentSection>>,
     docType |-> "Technical Design Document", contextFileNames |-> <<"spec.pdf">>,
     lastModifiedBy |-> "user-3", sharedWith |-> <<"user-2">>]

\* a legacy record without the optional properties
LegacyBare(id, c) ==
    [id |-> id, createdAt |-> c, title |-> "Legacy", sections |-> <<>>,
     docType |-> "High-Level Design"]

IsLegacy(r) == ~(Has(r, "versions") /\ IsArray(r.versions))

\* the collections found under the documents key when the application starts
InitialRecords ==
    {<<LegacyRecord(DocIdNames[1], Iso(MaxTime))>>,
     <<LegacyBare(DocIdNames[1], Iso(1)), StoredDocument(DocIdNames[2], Iso(MaxTime), <<>>)>>,
     <<LegacyBare(DocIdNames[1], Iso(1)) @@ [versions |-> NotAnArray],
       StoredDocument(DocIdNames[2], Iso(1), <<Version(Iso(MaxTime))>>)>>,
     <<LegacyBare(DocIdNames[1], Iso(1)) @@ [lastModifiedBy |-> "user-1"],
       LegacyRecord(DocIdNames[2], Iso(MaxTime))>>}

\* the documents callers pass to saveDocument
DocumentInputs ==
    UNION {
        {StoredDocument(id, Iso(1), <<Version(t)>>) : t \in Times}
        \cup {StoredDocument(id, Iso(MaxTime), <<Version(Iso(1)), VersionNoSavedAt>>)
                  @@ [sharedWith |-> <<"user-2">>]}
        : id \in DocIds}
    \cup {StoredDocument(DocIdNames[1], Iso(1), <<>>),
          [id |-> DocIdNames[1], createdAt |-> Iso(1)]}

\* one well-formed and one version-less document per id, for the model of both
\* collections side by side
FewDocumentInputs ==
    {StoredDocument(id, Iso(1), <<Version(Iso(1))>>) : id \in DocIds}
    \cup {StoredDocument(DocIdNames[1], Iso(1), <<>>)}

\* the files callers pass to saveKnowledgeFile
FileInputs ==
    {KnowledgeFile("file_1", Iso(1)), KnowledgeFile("file_2", Iso(MaxTime)),
     KnowledgeFile("file_1", Iso(MaxTime)) @@ [summary |-> "notes"]}

\* ------------------------------------------------------------------------
\* State
\* ------------------------------------------------------------------------
VARIABLES
    docStore,   \* localStorage item 'techDocAiDocuments'
    kbStore,    \* localStorage item 'techDocAiKnowledgeBase'
    lastCall,   \* the most recent repository call: its name, argument and outcome
    turn,       \* parity of the number of calls made so far
    currentView,     \* App: 'dashboard' or 'generator'
    allDocuments,    \* App: the documents the dashboard lists
    activeDocument,  \* App: the document handed to DocumentViewer as doc
    hasError,        \* ErrorBoundary: a render threw
    appErrors,       \* App: the messages of the error banners shown
    editableDoc,     \* DocumentViewer: the working copy
    isEditing,       \* DocumentViewer: edit mode
    commentsState,   \* DocumentViewer: the comments sidebar and its section
    editorState,     \* DocumentViewer: the diagram editor and its block
    agentRequest,    \* DocumentViewer: the call of modifyDocumentWithAgents in flight
    modal,           \* MermaidEditorModal: code, previewCode and error
    lastEvent        \* the most recent handler run: its name and arguments

appVars == <<currentView, allDocuments, activeDocument, hasError, appErrors>>
viewerVars == <<editableDoc, isEditing, commentsState, editorState, agentRequest, modal>>
vars == <<docStore, kbStore, lastCall, turn, appVars, viewerVars, lastEvent>>

\* null
NullDocument == [null |-> TRUE]
\* { isOpen: false, sectionIndex: null } and
\* { isOpen: false, sectionIndex: null, blockIndex: null, initialCode: null }
Closed == [isOpen |-> FALSE]
NoEvent == [name |-> "none"]
\* no call of modifyDocumentWithAgents is in flight
NoRequest == [pending |-> FALSE, live |-> FALSE]
\* {editorState.isOpen && <MermaidEditorModal ... />}: not rendered
NoModal == [mounted |-> FALSE]

\* the application before it is mounted, and with no viewer mounted
AppUnmounted ==
    /\ currentView = "dashboard"
    /\ allDocuments = <<>>
    /\ activeDocument = NullDocument
    /\ hasError = FALSE
    /\ appErrors = {}
ViewerUnmounted ==
    /\ editableDoc = NullDocument
    /\ isEditing = FALSE
    /\ commentsState = Closed
    /\ editorState = Closed
    /\ agentRequest = NoRequest
    /\ modal = NoModal

\* DocumentViewer unmounts: its state is dropped; a call in flight goes on,
\* its continuation will find no component to update
UnmountViewer ==
    /\ editableDoc' = NullDocument
    /\ isEditing' = FALSE
    /\ commentsState' = Closed
    /\ editorState' = Closed
    /\ agentRequest' = [agentRequest EXCEPT !.live = FALSE]
    /\ modal' = NoModal

NoArg == [none |-> TRUE]

\* arg: the argument of a call that returned (NoArg for a call that threw);
\* hit: the call read the collection and found a record with the argument's id
Call(op, arg, out, hit) ==
    [op |-> op, arg |-> IF out.err = NoError THEN arg ELSE NoArg,
     err |-> out.err, hit |-> hit]

HitIn(existing, id) == existing.err = NoError /\ id \in IdsOf(existing.result)

InitialCall == [op |-> "init", arg |-> NoArg, err |-> NoError, hit |-> FALSE]

\* the document repository on its own: no knowledge file is ever stored
Init ==
    /\ docStore \in
          {NullBlob, EmptyBlob, UnparseableBlob, NotArrayBlob}
          \cup {JSONstringify(recs) : recs \in InitialRecords}
    /\ kbStore = NullBlob
    /\ lastCall = InitialCall
    /\ turn = 0
    /\ AppUnmounted /\ ViewerUnmounted
    /\ lastEvent = NoEvent

\* both collections
InitStorage ==
    /\ docStore \in {NullBlob, UnparseableBlob,
                     JSONstringify(<<LegacyRecord(DocIdNames[1], Iso(1))>>)}
    /\ kbStore \in {NullBlob, UnparseableBlob}
    /\ lastCall = InitialCall
    /\ turn = 0
    /\ AppUnmounted /\ ViewerUnmounted
    /\ lastEvent = NoEvent

\* App.loadDocuments, Dashboard: getStoredDocuments()
GetStoredDocuments ==
    \E out \in {getStoredDocuments(docStore)} :
    /\ docStore' = out.store
    /\ lastCall' = Call("getStoredDocuments", NoArg, out, FALSE)
    /\ turn' = 1 - turn
    /\ UNCHANGED <<kbStore, appVars, viewerVars, lastEvent>>

\* saveDocument(doc); full: the store has no room for the new item
SaveDocumentCall(doc, full) ==
    \E out \in {saveDocument(doc, docStore, full)} :
    /\ docStore' = out.store
    /\ lastCall' = Call("saveDocument", doc, out, HitIn(getStoredDocuments(docStore), doc.id))
    /\ turn' = 1 - turn
    /\ UNCHANGED <<kbStore, appVars, viewerVars, lastEvent>>

SaveDocument == \E doc \in DocumentInputs, full \in BOOLEAN : SaveDocumentCall(doc, full)

\* App.handleDeleteDocument: deleteDocument(docId)
DeleteDocumentCall(docId, full) ==
    \E out \in {deleteDocument(docId, docStore, full)} :
    /\ docStore' = out.store
    /\ lastCall' = Call("deleteDocument", [id |-> docId], out, HitIn(getStoredDocuments(docStore), docId))
    /\ turn' = 1 - turn
    /\ UNCHANGED <<kbStore, appVars, viewerVars, lastEvent>>

DeleteDocument ==
    \E docId \in DocIds \cup {UnknownId}, full \in BOOLEAN : DeleteDocumentCall(docId, full)

\* getKnowledgeFiles()
GetKnowledgeFiles ==
    \E out \in {getKnowledgeFiles(kbStore)} :
    /\ kbStore' = out.store
    /\ lastCall' = Call("getKnowledgeFiles", NoArg, out, FALSE)
    /\ turn' = 1 - turn
    /\ UNCHANGED <<docStore, appVars, viewerVars, lastEvent>>

\* saveKnowledgeFile(file)
SaveKnowledgeFileCall(file, full) ==
    \E out \in {saveKnowledgeFile(file, kbStore, full)} :
    /\ kbStore' = out.store
    /\ lastCall' = Call("saveKnowledgeFile", file, out, HitIn(getKnowledgeFiles(kbStore), file.id))
    /\ turn' = 1 - turn
    /\ UNCHANGED <<docStore, appVars, viewerVars, lastEvent>>

SaveKnowledgeFile ==
    \E file \in FileInputs, full \in BOOLEAN : SaveKnowledgeFileCall(file, full)

\* deleteKnowledgeFile(fileId)
DeleteKnowledgeFileCall(fileId, full) ==
    \E out \in {deleteKnowledgeFile(fileId, kbStore, full)} :
    /\ kbStore' = out.store
    /\ lastCall' = Call("deleteKnowledgeFile", [id |-> fileId], out, HitIn(getKnowledgeFiles(kbStore), fileId))
    /\ turn' = 1 - turn
    /\ UNCHANGED <<docStore, appVars, viewerVars, lastEvent>>

DeleteKnowledgeFile ==
    \E fileId \in FileIds \cup {UnknownId}, full \in BOOLEAN :
        DeleteKnowledgeFileCall(fileId, full)

Next ==
    \/ GetStoredDocuments
    \/ SaveDocument
    \/ DeleteDocument

Spec == Init /\ [][Next]_vars

SaveFewDocuments ==
    \E doc \in FewDocumentInputs, full \in BOOLEAN : SaveDocumentCall(doc, full)

NextStorage ==
    \/ GetStoredDocuments
    \/ SaveFewDocuments
    \/ DeleteDocument
    \/ GetKnowledgeFiles
    \/ SaveKnowledgeFile
    \/ DeleteKnowledgeFile

SpecStorage == InitStorage /\ [][NextStorage]_vars

\* ------------------------------------------------------------------------
\* App.tsx and components/DocumentGenerator.tsx: the viewer session
\* ------------------------------------------------------------------------
MaxComments == 2

\* a section text with one diagram block
DiagramText == <<"intro", MermaidFence, "graph A", "[fence]", "outro">>

\* a section text with two diagram blocks
TwoDiagramsText ==
    <<"intro", MermaidFence, "graph A", "[fence]", "between",
      MermaidFence, "graph B", "[fence]">>

\* a section text whose first diagram block has no line between its fences
EmptyBlockText ==
    <<MermaidFence, "[fence]", "note", MermaidFence, "graph B", "[fence]">>

\* handleAddComment: newComment, created at the instant now
Comment(now, commentText) ==
    [id |-> <<"comment_", DateGetTime(now)>>, userId |-> "user-1",
     content |-> commentText, createdAt |-> now]

\* a document of two versions; the latest has a section with diagrams and a
\* section that carries a comment
ViewedDocument ==
    StoredDocument(DocIdNames[1], Iso(1),
        <<Version(Iso(1)),
          [title |-> "Design v2",
           sections |-> <<[title |-> "Architecture", content |-> DiagramText],
                          [title |-> "Notes", content |-> <<"text">>,
                           comments |-> <<Comment(Iso(1), "first")>>]>>,
           docType |-> "High-Level Design", savedAt |-> Iso(1), savedBy |-> "user-1"]>>)
        @@ [sharedWith |-> <<"user-2">>]

\* a stored record with an empty version list
EmptyDocument == StoredDocument(DocIdNames[2], Iso(1), <<>>)

\* what the user types and the editors hand over
NewTitles == {"Design v3"}
SectionEdits == {[field |-> "content", value |-> <<"rewritten">>]}
CommentTexts == {"ok"}
NewCodes == {<<"graph X", "X --> Y">>}
\* the block numbers MarkdownRenderer hands to onEditMermaid

\* the number of comments in the latest version of doc
RECURSIVE SumComments(_)
SumComments(sections) ==
    IF sections = <<>> THEN 0
    ELSE Len(CommentsOf(Head(sections))) + SumComments(Tail(sections))
CommentCount(doc) ==
    IF Len(doc.versions) = 0 THEN 0
    ELSE SumComments(doc.versions[Len(doc.versions)].sections)

\* an event: the handler and its arguments
Event(name, args) == [name |-> name] @@ args

\* DocumentViewer is mounted with doc = activeDocument
Mounted == ~hasError /\ currentView = "generator" /\ activeDocument # NullDocument
\* latestVersion is not null: the document is rendered, not the error notice
Rendered == Mounted /\ Len(editableDoc.versions) > 0
\* neither the comments sidebar nor the diagram editor covers the page
NoOverlay == ~commentsState.isOpen /\ ~editorState.isOpen
\* the indexes of latestVersion.sections.map((section, index) => ...)
RenderedSections == 0..(Len(editableDoc.versions[Len(editableDoc.versions)].sections) - 1)

\* App.addAppError: a banner with this message replaces one of the same
\* message.  A message is the sequence of the parts it is put together from.
addAppError(prev, message) == prev \cup {message}

\* App.loadDocuments
LoadedDocuments(out) == IF out.err = NoError THEN out.result ELSE <<>>

\* useEffect(() => { loadDocuments(); }, [loadDocuments]) on the dashboard
loadDocuments ==
    /\ ~hasError /\ currentView = "dashboard"
    /\ \E out \in {getStoredDocuments(docStore)} :
          /\ docStore' = out.store
          /\ allDocuments' = LoadedDocuments(out)
          /\ lastCall' = Call("getStoredDocuments", NoArg, out, FALSE)
          /\ appErrors' = IF out.err = NoError THEN appErrors
                                               ELSE addAppError(appErrors, <<out.err>>)
    /\ lastEvent' = Event("loadDocuments", <<>>)
    /\ turn' = 1 - turn
    /\ UNCHANGED <<kbStore, currentView, activeDocument, hasError, viewerVars>>

\* App.handleOpenDocument(docId); DocumentViewer mounts with its initial state
handleOpenDocument(docId) ==
    /\ ~hasError /\ currentView = "dashboard"
    /\ \E i \in 1..Len(allDocuments) :
          /\ allDocuments[i].id = docId
          /\ \A j \in 1..(i - 1) : allDocuments[j].id # docId
          /\ activeDocument' = allDocuments[i]
          /\ editableDoc' = allDocuments[i]
    /\ currentView' = "generator"
    /\ isEditing' = FALSE
    /\ commentsState' = Closed
    /\ editorState' = Closed
    /\ lastEvent' = Event("handleOpenDocument", [docId |-> docId])
    /\ turn' = 1 - turn
    /\ UNCHANGED <<docStore, kbStore, lastCall, allDocuments, hasError, appErrors,
                   agentRequest, modal>>

\* App.handleBackToDashboard: DocumentViewer unmounts, the list is reloaded
handleBackToDashboard ==
    /\ Mounted /\ NoOverlay
    /\ currentView' = "dashboard"
    /\ activeDocument' = NullDocument
    /\ \E out \in {getStoredDocuments(docStore)} :
          /\ docStore' = out.store
          /\ allDocuments' = LoadedDocuments(out)
          /\ lastCall' = Call("getStoredDocuments", NoArg, out, FALSE)
          /\ appErrors' = IF out.err = NoError THEN appErrors
                                               ELSE addAppError(appErrors, <<out.err>>)
    /\ UnmountViewer
    /\ lastEvent' = Event("handleBackToDashboard", <<>>)
    /\ turn' = 1 - turn
    /\ UNCHANGED <<kbStore, hasError>>

\* onClick={() => setIsEditing(true)}
Edit ==
    /\ Rendered /\ NoOverlay /\ ~isEditing
    /\ isEditing' = TRUE
    /\ lastEvent' = Event("setIsEditing", <<>>)
    /\ turn' = 1 - turn
    /\ UNCHANGED <<docStore, kbStore, lastCall, appVars, agentRequest, modal, editableDoc, commentsState, editorState>>

\* handleCancelEdit
handleCancelEdit ==
    /\ editableDoc' = activeDocument
    /\ isEditing' = FALSE
    /\ lastEvent' = Event("handleCancelEdit", <<>>)
    /\ turn' = 1 - turn
    /\ UNCHANGED <<docStore, kbStore, lastCall, appVars, agentRequest, modal, commentsState, editorState>>

\* handleSaveChanges: a throw of saveDocument leaves the handler before
\* setIsEditing(false)
handleSaveChanges(full) ==
    /\ \E out \in {saveDocument(editableDoc, docStore, full)} :
          /\ docStore' = out.store
          /\ lastCall' = Call("saveDocument", editableDoc, out,
                              HitIn(getStoredDocuments(docStore), editableDoc.id))
          /\ isEditing' = IF out.err = NoError THEN FALSE ELSE isEditing
    /\ lastEvent' = Event("handleSaveChanges", <<>>)
    /\ turn' = 1 - turn
    /\ UNCHANGED <<kbStore, appVars, agentRequest, modal, editableDoc, commentsState, editorState>>

\* handleTitleChange(newTitle)
handleTitleChange(newTitle) ==
    /\ editableDoc' = TitleUpdater(editableDoc, newTitle)
    /\ lastEvent' = Event("handleTitleChange", [newTitle |-> newTitle])
    /\ turn' = 1 - turn
    /\ UNCHANGED <<docStore, kbStore, lastCall, appVars, agentRequest, modal, isEditing, commentsState, editorState>>

\* handleSectionChange(sectionIndex, field, value)
handleSectionChange(sectionIndex, field, value) ==
    /\ editableDoc' = SectionUpdater(editableDoc, sectionIndex, field, value)
    /\ lastEvent' = Event("handleSectionChange",
                          [sectionIndex |-> sectionIndex, field |-> field, value |-> value])
    /\ turn' = 1 - turn
    /\ UNCHANGED <<docStore, kbStore, lastCall, appVars, agentRequest, modal, isEditing, commentsState, editorState>>

\* handleOpenComments(sectionIndex)
handleOpenComments(sectionIndex) ==
    /\ commentsState' = [isOpen |-> TRUE, sectionIndex |-> sectionIndex]
    /\ lastEvent' = Event("handleOpenComments", [sectionIndex |-> sectionIndex])
    /\ turn' = 1 - turn
    /\ UNCHANGED <<docStore, kbStore, lastCall, appVars, agentRequest, modal, editableDoc, isEditing, editorState>>

\* handleCloseComments
handleCloseComments ==
    /\ commentsState' = Closed
    /\ lastEvent' = Event("handleCloseComments", <<>>)
    /\ turn' = 1 - turn
    /\ UNCHANGED <<docStore, kbStore, lastCall, appVars, agentRequest, modal, editableDoc, isEditing, editorState>>

\* handleOpenEditor(sectionIndex, blockIndex, mermaidCode); the modal is
\* rendered with initialCode
handleOpenEditor(sectionIndex, blockIndex, mermaidCode) ==
    /\ editorState' = [isOpen |-> TRUE, sectionIndex |-> sectionIndex,
                       blockIndex |-> blockIndex, initialCode |-> mermaidCode]
    /\ modal' = MountModal(mermaidCode)
    /\ lastEvent' = Event("handleOpenEditor",
                          [sectionIndex |-> sectionIndex, blockIndex |-> blockIndex])
    /\ turn' = 1 - turn
    /\ UNCHANGED <<docStore, kbStore, lastCall, appVars, agentRequest, editableDoc,
                   isEditing, commentsState>>

\* handleCloseEditor
handleCloseEditor ==
    /\ editorState' = Closed
    /\ modal' = NoModal
    /\ lastEvent' = Event("handleCloseEditor", <<>>)
    /\ turn' = 1 - turn
    /\ UNCHANGED <<docStore, kbStore, lastCall, appVars, agentRequest, editableDoc, isEditing, commentsState>>

SetEditableDocSaving_NoSave(upd, full, after) ==
    /\ editableDoc' = upd.next
    /\ editorState' = after
    /\ modal' = IF after.isOpen THEN modal ELSE NoModal
    /\ UNCHANGED <<docStore, lastCall, appVars, agentRequest, isEditing, commentsState>>

\* setEditableDoc(prevDoc => ...) with an updater that may call saveDocument.
\* A throw of saveDocument inside the updater is a throw of the render:
\* React keeps no new state and ErrorBoundary replaces the application.
\* after: the state of the editor once the handler has returned.
SetEditableDocSaving(upd, full, after) ==
    IF ~upd.saves
    THEN /\ editableDoc' = upd.next
         /\ editorState' = after
         /\ modal' = IF after.isOpen THEN modal ELSE NoModal
         /\ UNCHANGED <<docStore, lastCall, appVars, agentRequest, isEditing, commentsState>>
    ELSE \E out \in {saveDocument(upd.saved, docStore, full)} :
            /\ docStore' = out.store
            /\ lastCall' = Call("saveDocument", upd.saved, out,
                                HitIn(getStoredDocuments(docStore), upd.saved.id))
            /\ IF out.err = NoError
               THEN /\ editableDoc' = upd.next
                    /\ editorState' = after
                    /\ modal' = IF after.isOpen THEN modal ELSE NoModal
                    /\ UNCHANGED <<appVars, agentRequest, isEditing, commentsState>>
               ELSE /\ hasError' = TRUE
                    /\ currentView' = "dashboard"
                    /\ allDocuments' = <<>>
                    /\ activeDocument' = NullDocument
                    /\ appErrors' = {}
                    /\ UnmountViewer

\* handleAddComment(commentText) at the instant now
handleAddComment(commentText, now, full) ==
    /\ IF ~Has(commentsState, "sectionIndex")
       THEN UNCHANGED <<docStore, lastCall, appVars, viewerVars>>
       ELSE SetEditableDocSaving(
                CommentUpdater(editableDoc, commentsState.sectionIndex,
                               Comment(now, commentText)),
                full, editorState)
    /\ lastEvent' = Event("handleAddComment", [comment |-> Comment(now, commentText)])
    /\ turn' = 1 - turn
    /\ UNCHANGED kbStore

\* handleSaveDiagram(newCode); the editor is closed in the finally block
handleSaveDiagram(newCode, full) ==
    /\ IF ~Has(editorState, "sectionIndex") \/ ~Has(editorState, "blockIndex")
       THEN UNCHANGED <<docStore, lastCall, appVars, viewerVars>>
       ELSE SetEditableDocSaving(
                DiagramUpdater(editableDoc, editorState.sectionIndex,
                               editorState.blockIndex, newCode),
                full, Closed)
    /\ lastEvent' = Event("handleSaveDiagram", [newCode |-> newCode] @@ editorState)
    /\ turn' = 1 - turn
    /\ UNCHANGED kbStore

\* ErrorBoundary.handleReload: window.location.reload(); the page and every
\* call it had in flight are gone
handleReload ==
    /\ hasError
    /\ hasError' = FALSE
    /\ agentRequest' = NoRequest
    /\ lastEvent' = Event("handleReload", <<>>)
    /\ turn' = 1 - turn
    /\ UNCHANGED <<docStore, kbStore, lastCall, currentView, allDocuments,
                   activeDocument, appErrors, editableDoc, isEditing,
                   commentsState, editorState, modal>>

\* The handlers as the rendered page offers them: the title and section
\* fields and Cancel / Save Changes in edit mode, Edit and the diagram buttons
\* outside it, the comment button in both; the sidebar and the editor cover
\* the page while they are open.
OpenDocument == \E docId \in DocIds : handleOpenDocument(docId)
CancelEdit == Rendered /\ NoOverlay /\ isEditing /\ handleCancelEdit
SaveChanges ==
    Rendered /\ NoOverlay /\ isEditing /\ \E full \in BOOLEAN : handleSaveChanges(full)
TitleChange ==
    Rendered /\ NoOverlay /\ isEditing /\ \E newTitle \in NewTitles : handleTitleChange(newTitle)
SectionChange ==
    /\ Rendered /\ NoOverlay /\ isEditing
    /\ \E index \in RenderedSections, edit \in SectionEdits :
          handleSectionChange(index, edit.field, edit.value)
OpenComments ==
    /\ Rendered /\ NoOverlay
    /\ \E index \in RenderedSections : handleOpenComments(index)
CloseComments == Rendered /\ commentsState.isOpen /\ handleCloseComments
AddComment ==
    /\ Rendered /\ commentsState.isOpen
    /\ CommentCount(editableDoc) < MaxComments
    /\ \E commentText \in CommentTexts, now \in {Iso(MaxTime)}, full \in BOOLEAN :
          handleAddComment(commentText, now, full)
OpenEditor ==
    /\ Rendered /\ NoOverlay /\ ~isEditing
    /\ \E index \in RenderedSections :
          \E content \in {At(LatestSections(editableDoc), index).content} :
             \E blockIndex \in RenderedBlockIndexes(content) :
                handleOpenEditor(index, blockIndex, RenderedCode(content, blockIndex))
CloseEditor == Rendered /\ editorState.isOpen /\ handleCloseEditor
SaveDiagram ==
    /\ Rendered /\ editorState.isOpen
    /\ \E newCode \in NewCodes, full \in BOOLEAN : handleSaveDiagram(newCode, full)

ViewerStores == {JSONstringify(<<EmptyDocument, ViewedDocument>>)}

InitViewer ==
    /\ docStore \in ViewerStores
    /\ kbStore = NullBlob
    /\ lastCall = InitialCall
    /\ turn = 0
    /\ AppUnmounted /\ ViewerUnmounted
    /\ lastEvent = NoEvent

NextViewer ==
    \/ loadDocuments
    \/ OpenDocument
    \/ handleBackToDashboard
    \/ Edit
    \/ CancelEdit
    \/ SaveChanges
    \/ TitleChange
    \/ SectionChange
    \/ OpenComments
    \/ CloseComments
    \/ AddComment
    \/ OpenEditor
    \/ CloseEditor
    \/ SaveDiagram
    \/ handleReload

SpecViewer == InitViewer /\ [][NextViewer]_vars

\* ------------------------------------------------------------------------
\* The viewer session with the assistant: handleSendMessageToAgent awaits
\* modifyDocumentWithAgents, other handlers run before it settles
\* ------------------------------------------------------------------------
\* what modifyDocumentWithAgents resolves to: a GeneratedDocument with a
\* title, a docType and an array of sections
AgentReplies ==
    {[title |-> "Design by the assistant", docType |-> "Low-Level Design",
      sections |-> <<[title |-> "Architecture", content |-> <<"rewritten by the assistant">>]>>]}

\* the message modifyDocumentWithAgents rejects with
AgentFailure ==
    "Failed to modify the document via the AI service. The model may have been unable to fulfill the request."

\* handleSendMessageToAgent(message) up to its await: the call is made with
\* the editableDoc of the render that created the handler
handleSendMessageToAgent ==
    /\ ~agentRequest.pending
    /\ agentRequest' = [pending |-> TRUE, live |-> TRUE, doc |-> editableDoc]
    /\ lastEvent' = Event("handleSendMessageToAgent", <<>>)
    /\ turn' = 1 - turn
    /\ UNCHANGED <<docStore, kbStore, lastCall, appVars, editableDoc, isEditing,
                   commentsState, editorState, modal>>

\* handleSendMessageToAgent after its await, the call resolved with
\* updatedDoc: newDocState is built from the editableDoc the handler closed
\* over, set as the working copy (of a viewer that is still mounted) and
\* saved; a throw of saveDocument is caught and shown as a banner
AgentReplied(updatedDoc, full) ==
    /\ agentRequest.pending
    /\ \E newDocState \in {Spread(agentRequest.doc, updatedDoc)} :
          /\ editableDoc' = IF agentRequest.live THEN newDocState ELSE editableDoc
          /\ \E out \in {saveDocument(newDocState, docStore, full)} :
                /\ docStore' = out.store
                /\ lastCall' = Call("saveDocument", newDocState, out,
                                    HitIn(getStoredDocuments(docStore), newDocState.id))
                /\ appErrors' =
                      IF out.err = NoError \/ hasError THEN appErrors
                      ELSE addAppError(appErrors, <<"Failed to modify document: ", out.err>>)
    /\ agentRequest' = NoRequest
    /\ lastEvent' = Event("handleSendMessageToAgent", [updatedDoc |-> updatedDoc])
    /\ turn' = 1 - turn
    /\ UNCHANGED <<kbStore, currentView, allDocuments, activeDocument, hasError,
                   isEditing, commentsState, editorState, modal>>

\* handleSendMessageToAgent after its await, the call rejected
AgentFailed ==
    /\ agentRequest.pending
    /\ appErrors' = IF hasError THEN appErrors
                    ELSE addAppError(appErrors, <<"Failed to modify document: ", AgentFailure>>)
    /\ agentRequest' = NoRequest
    /\ lastEvent' = Event("handleSendMessageToAgent", [error |-> AgentFailure])
    /\ turn' = 1 - turn
    /\ UNCHANGED <<docStore, kbStore, lastCall, currentView, allDocuments,
                   activeDocument, hasError, editableDoc, isEditing, commentsState,
                   editorState, modal>>

\* the chat panel of a rendered document: one message at a time, and none
\* once a reply has been applied to the working copy
SendMessage ==
    /\ Rendered /\ NoOverlay
    /\ ~Has(editableDoc, "title")
    /\ handleSendMessageToAgent
AgentReply == \E updatedDoc \in AgentReplies, full \in BOOLEAN : AgentReplied(updatedDoc, full)

\* ViewedDocument has been opened from the dashboard
InitAssistant ==
    /\ docStore \in ViewerStores
    /\ kbStore = NullBlob
    /\ lastCall = InitialCall
    /\ turn = 0
    /\ currentView = "generator"
    /\ allDocuments = getStoredDocuments(docStore).result
    /\ activeDocument = ViewedDocument
    /\ hasError = FALSE
    /\ appErrors = {}
    /\ editableDoc = ViewedDocument
    /\ isEditing = FALSE
    /\ commentsState = Closed
    /\ editorState = Closed
    /\ agentRequest = NoRequest
    /\ modal = NoModal
    /\ lastEvent = NoEvent

NextAssistant ==
    \/ SendMessage
    \/ AgentReply
    \/ AgentFailed
    \/ Edit
    \/ TitleChange
    \/ SaveChanges
    \/ CancelEdit
    \/ OpenComments
    \/ AddComment
    \/ CloseComments
    \/ OpenEditor
    \/ SaveDiagram

SpecAssistant == InitAssistant /\ [][NextAssistant]_vars

\* ------------------------------------------------------------------------
\* components/MermaidEditorModal.tsx: the diagram editor at work
\* ------------------------------------------------------------------------
\* what is typed into the editor
ModalCodes == NewCodes \cup InvalidCodes \cup {<<"graph B">>}

\* onChange={(e) => setCode(e.target.value)}; the effect on [code] starts
\* the 300 ms timer anew
setCode(newCode) ==
    /\ modal.mounted
    /\ modal' = [modal EXCEPT !.code = newCode]
    /\ lastEvent' = Event("setCode", [code |-> newCode])
    /\ turn' = 1 - turn
    /\ UNCHANGED <<docStore, kbStore, lastCall, appVars, editableDoc, isEditing,
                   commentsState, editorState, agentRequest>>

\* the timer fires: setPreviewCode(code), and the effect on [previewCode]
\* checks the syntax of the new previewCode and sets or clears error
setPreviewCode ==
    /\ modal.mounted
    /\ modal.previewCode # modal.code
    /\ modal' = [modal EXCEPT !.previewCode = modal.code,
                              !.error = ~MermaidParses(modal.code)]
    /\ lastEvent' = Event("setPreviewCode", <<>>)
    /\ turn' = 1 - turn
    /\ UNCHANGED <<docStore, kbStore, lastCall, appVars, editableDoc, isEditing,
                   commentsState, editorState, agentRequest>>

\* handleSave: if (!error) onSave(code), with onSave = handleSaveDiagram
handleSave(full) ==
    /\ modal.mounted
    /\ IF ~modal.error
       THEN handleSaveDiagram(modal.code, full)
       ELSE /\ lastEvent' = Event("handleSave", <<>>)
            /\ turn' = 1 - turn
            /\ UNCHANGED <<docStore, kbStore, lastCall, appVars, viewerVars>>

\* the keys typed into the text field
TypeCode == Rendered /\ editorState.isOpen /\ \E newCode \in ModalCodes : setCode(newCode)
\* the Save button, disabled={!!error}
SaveButton ==
    Rendered /\ editorState.isOpen /\ ~modal.error /\ \E full \in BOOLEAN : handleSave(full)
\* Ctrl+S or Cmd+S
SaveShortcut == Rendered /\ editorState.isOpen /\ \E full \in BOOLEAN : handleSave(full)

NextModal ==
    \/ OpenEditor
    \/ TypeCode
    \/ setPreviewCode
    \/ SaveButton
    \/ SaveShortcut
    \/ CloseEditor

SpecModal == InitAssistant /\ [][NextModal]_vars

\* ------------------------------------------------------------------------
\* The handlers of DocumentViewer as functions: each one applied once to
\* every document and every index below
\* ------------------------------------------------------------------------
\* ViewedDocument with the text of its first section replaced
WithContent(content) ==
    SectionUpdater(ViewedDocument, 0, "content", content)

\* ViewedDocument with two comments on its second section
TwiceCommented ==
    CommentUpdater(ViewedDocument, 1, Comment(Iso(MaxTime), "second")).next

MutatorDocuments ==
    {EmptyDocument, ViewedDocument, TwiceCommented,
     WithContent(TwoDiagramsText), WithContent(EmptyBlockText)}

\* section and block indexes, in and out of range
SectionIndexes == (0 - 1)..2
BlockIndexes == (0 - 1)..2

MutatorEdits == SectionEdits \cup {[field |-> "title", value |-> "Scope"]}

InitMutator ==
    /\ docStore \in ViewerStores
    /\ kbStore = NullBlob
    /\ lastCall = InitialCall
    /\ turn = 0
    /\ currentView = "generator"
    /\ allDocuments = <<>>
    /\ hasError = FALSE
    /\ appErrors = {}
    /\ agentRequest = NoRequest
    /\ modal = NoModal
    /\ editableDoc \in MutatorDocuments
    /\ activeDocument = editableDoc
    /\ isEditing \in BOOLEAN
    /\ commentsState \in
          {Closed} \cup {[isOpen |-> TRUE, sectionIndex |-> i] : i \in SectionIndexes}
    /\ editorState \in
          {Closed} \cup {[isOpen |-> TRUE, sectionIndex |-> i, blockIndex |-> b] :
                            i \in SectionIndexes, b \in BlockIndexes}
    /\ lastEvent = NoEvent

\* no handler has been applied yet
Fresh == lastEvent = NoEvent

ApplyTitleChange == Fresh /\ \E newTitle \in NewTitles : handleTitleChange(newTitle)
ApplySectionChange ==
    /\ Fresh
    /\ \E index \in SectionIndexes, edit \in MutatorEdits :
          handleSectionChange(index, edit.field, edit.value)
ApplyAddComment ==
    /\ Fresh
    /\ \E commentText \in CommentTexts, now \in Times, full \in BOOLEAN :
          handleAddComment(commentText, now, full)
ApplySaveDiagram ==
    Fresh /\ \E newCode \in NewCodes, full \in BOOLEAN : handleSaveDiagram(newCode, full)

NextMutator ==
    \/ ApplyTitleChange
    \/ ApplySectionChange
    \/ ApplyAddComment
    \/ ApplySaveDiagram

SpecMutator == InitMutator /\ [][NextMutator]_vars

\* ------------------------------------------------------------------------
\* Properties
\* ------------------------------------------------------------------------
\* what getStoredDocuments() returns for the item under the documents key
Listed(blob) == getStoredDocuments(blob).result
Readable(blob) == getStoredDocuments(blob).err = NoError

\* two objects agree on property k (both undefined, or the same value)
SameProp(a, b, k) == /\ Has(a, k) <=> Has(b, k)
                     /\ Has(a, k) => a[k] = b[k]

\* same id, createdAt, versions and sharedWith
SameDocument(a, b) ==
    /\ SameProp(a, b, "id")
    /\ SameProp(a, b, "createdAt")
    /\ SameProp(a, b, "versions")
    /\ SameProp(a, b, "sharedWith")

\* the records of seq whose id is not id, in their order
Others(seq, id) == SelectSeq(seq, LAMBDA d : d.id # id)

\* C1  Round trip: after saveDocument(d) succeeds (which takes a non-empty
\* d.versions and a readable prior store), getStoredDocuments() returns a
\* sequence with an entry equal to d.
RoundTrip ==
    (lastCall.op = "saveDocument" /\ lastCall.err = NoError)
        => /\ ~NoVersions(lastCall.arg)
           /\ Readable(docStore)
           /\ \E d \in Range(Listed(docStore)) : SameDocument(d, lastCall.arg)

\* a save succeeded on a store that held another document
RoundTripWitness ==
    /\ lastCall.op = "saveDocument"
    /\ lastCall.err = NoError
    /\ Len(Listed(docStore)) >= 2

\* C2  Upsert: a successful save of a document whose id is already stored
\* leaves the length of getStoredDocuments() unchanged, the record of that
\* id equal to the saved document, and every other record as it was.
UpsertNotDuplicate ==
    [][(/\ lastCall'.op = "saveDocument"
        /\ lastCall'.err = NoError
        /\ lastCall'.arg.id \in IdsOf(Listed(docStore)))
       => \A doc \in {lastCall'.arg}, before \in {Listed(docStore)},
             after \in {Listed(docStore')} :
             /\ Len(after) = Len(before)
             /\ \E i \in 1..Len(after) : after[i].id = doc.id
             /\ \A i \in 1..Len(after) :
                    after[i].id = doc.id => SameDocument(after[i], doc)
             /\ Others(after, doc.id) = Others(before, doc.id)]_vars

\* a stored document was replaced while another document was stored
UpsertWitness ==
    /\ lastCall.op = "saveDocument"
    /\ lastCall.err = NoError
    /\ lastCall.hit
    /\ Len(Listed(docStore)) >= 2

\* the instant a document was last saved, as the claim states it: the
\* savedAt of the last version, or createdAt when there is none
Recency(d) ==
    LET n == Len(d.versions) IN
    IF n > 0 /\ "savedAt" \in DOMAIN d.versions[n]
    THEN DateGetTime(d.versions[n].savedAt)
    ELSE DateGetTime(d.createdAt)

\* C3  Recency ordering: in every result of getStoredDocuments() a document
\* saved strictly later than another comes before it.
RecencyOrdering ==
    \A r \in {Listed(docStore)} :
        \A i, j \in 1..Len(r) : Recency(r[j]) > Recency(r[i]) => j < i

\* the stored order is oldest first, so that the result reorders it; one of
\* the two documents is ordered by createdAt (its last version has no savedAt)
RecencyWitness ==
    /\ Parses(docStore)
    /\ Len(docStore.recs) >= 2
    /\ LET m == MapMigrate(docStore.recs) IN
       /\ Recency(m[1]) < Recency(m[2])
       /\ \E i \in 1..2 : Len(m[i].versions) = 2
    /\ lastCall.op = "getStoredDocuments"

\* C4  Corrupted store recovery: getStoredDocuments() on an unparseable item
\* throws the corrupted-data error and removes the item; the next call
\* returns the empty sequence and throws nothing.
CorruptedRecovery ==
    [][(lastCall'.op = "getStoredDocuments" /\ docStore = UnparseableBlob)
       => /\ lastCall'.err = CorruptedDocuments
          /\ docStore' = NullBlob
          /\ getStoredDocuments(docStore') = Outcome(NoError, <<>>, docStore')]_vars

CorruptedWitness ==
    /\ lastCall.op = "getStoredDocuments"
    /\ lastCall.err = CorruptedDocuments
    /\ docStore = NullBlob

\* C5  saveDocument(doc) with an empty or missing version list is rejected
\* before any I/O: the item under the documents key is the same after the
\* call, whatever it was, and the error thrown is the validation error, not
\* the generic one.
ValidationBeforeIO ==
    [][\A doc \in DocumentInputs, full \in BOOLEAN :
          (/\ lastCall'.op = "saveDocument"
           /\ NoVersions(doc)
           /\ SaveDocumentCall(doc, full))
          => /\ docStore' = docStore
             /\ lastCall'.err = NoVersionsMessage]_vars

\* C6  Capacity exhaustion is all-or-nothing: when setItem rejects the write
\* of saveDocument or saveKnowledgeFile for capacity, the call throws the
\* storage-full error, which is not the generic one, and both items are what
\* they were before the call.
QuotaAllOrNothing ==
    [][/\ \A doc \in FewDocumentInputs :
             (/\ lastCall'.op = "saveDocument"
              /\ Readable(docStore)
              /\ ~NoVersions(doc)
              /\ SaveDocumentCall(doc, TRUE))
             => /\ lastCall'.err = StorageFullDocuments
                /\ lastCall'.err # UnexpectedSaveDocument
                /\ docStore' = docStore
                /\ kbStore' = kbStore
       /\ \A file \in FileInputs :
             (/\ lastCall'.op = "saveKnowledgeFile"
              /\ getKnowledgeFiles(kbStore).err = NoError
              /\ SaveKnowledgeFileCall(file, TRUE))
             => /\ lastCall'.err = StorageFullKnowledgeFiles
                /\ lastCall'.err # UnexpectedSaveKnowledgeFile
                /\ docStore' = docStore
                /\ kbStore' = kbStore]_vars

\* a save was rejected for capacity while both collections held records
QuotaWitness ==
    /\ lastCall.op \in {"saveDocument", "saveKnowledgeFile"}
    /\ lastCall.err \in {StorageFullDocuments, StorageFullKnowledgeFiles}
    /\ Parses(docStore) /\ Len(docStore.recs) > 0
    /\ Parses(kbStore) /\ Len(kbStore.recs) > 0

\* C7  deleteDocument(id), on a readable store that accepts the rewritten
\* collection: it throws nothing, and getStoredDocuments() afterwards is the
\* previous result without the records of that id, the others in their
\* order; with no record of that id it is the previous result.
DeleteRemovesExactly ==
    [][lastCall'.op = "deleteDocument"
       => /\ \A docId \in DocIds \cup {UnknownId} :
                (Readable(docStore) /\ DeleteDocumentCall(docId, FALSE))
                    => lastCall'.err = NoError
          /\ lastCall'.err = NoError
                => \A docId \in {lastCall'.arg.id}, before \in {Listed(docStore)},
                      after \in {Listed(docStore')} :
                      /\ Readable(docStore')
                      /\ after = Others(before, docId)
                      /\ docId \notin IdsOf(after)
                      /\ docId \notin IdsOf(before) => after = before]_vars

\* a record was deleted and another one is left
DeleteWitness ==
    /\ lastCall.op = "deleteDocument"
    /\ lastCall.err = NoError
    /\ lastCall.hit
    /\ Len(Listed(docStore)) >= 1

\* an unknown id was deleted from a store holding records
DeleteUnknownWitness ==
    /\ lastCall.op = "deleteDocument"
    /\ lastCall.err = NoError
    /\ ~lastCall.hit
    /\ Len(Listed(docStore)) >= 2

\* the raw records under the documents key
StoredRecords == IF Parses(docStore) THEN Range(docStore.recs) ELSE {}

\* C8  Idempotent migration: migrateDocument(migrateDocument(r)) equals
\* migrateDocument(r) for every raw record r.
MigrationIdempotent ==
    \A r \in StoredRecords :
        migrateDocument(migrateDocument(r)) = migrateDocument(r)

\* the store holds a legacy record, a record with an empty version list or a
\* canonical record, and the collection has been read
MigrationWitness ==
    /\ lastCall.op = "getStoredDocuments"
    /\ \E r \in StoredRecords : IsLegacy(r) /\ migrateDocument(r) # r
    /\ \E r \in StoredRecords : ~IsLegacy(r)

\* C9  Every document returned by getStoredDocuments() has a non-empty
\* version list, and so has every record a call writes back, also when the
\* store holds a record whose version list is empty.
VersionsNeverEmpty ==
    lastCall.op # "init"
        => /\ \A i \in 1..Len(Listed(docStore)) :
                  Len(Listed(docStore)[i].versions) > 0
           /\ lastCall.op \in {"saveDocument", "deleteDocument"} /\ lastCall.err = NoError
                  => \A r \in StoredRecords : Len(r.versions) > 0

\* property k of a is property l of b (both undefined, or the same value)
SamePropAs(a, k, b, l) ==
    /\ Has(a, k) <=> Has(b, l)
    /\ Has(a, k) => a[k] = b[l]

\* C10  For a legacy flat record (no versions property) migrateDocument
\* returns a document with the record's id, createdAt and sharedWith and
\* exactly one version: the record's title, sections, docType and
\* contextFileNames, savedAt the record's createdAt, savedBy the record's
\* lastModifiedBy.
LegacyMigration ==
    \A r \in StoredRecords :
        ~Has(r, "versions") =>
            LET m == migrateDocument(r) IN
            /\ SameProp(m, r, "id")
            /\ SameProp(m, r, "createdAt")
            /\ SameProp(m, r, "sharedWith")
            /\ Has(m, "versions")
            /\ Len(m.versions) = 1
            /\ DOMAIN m = {"versions"} \cup (DOMAIN r \cap {"id", "createdAt", "sharedWith"})
            /\ SameProp(m.versions[1], r, "title")
            /\ SameProp(m.versions[1], r, "sections")
            /\ SameProp(m.versions[1], r, "docType")
            /\ SameProp(m.versions[1], r, "contextFileNames")
            /\ SamePropAs(m.versions[1], "savedAt", r, "createdAt")
            /\ SamePropAs(m.versions[1], "savedBy", r, "lastModifiedBy")

\* a legacy record with every optional property is stored and has been read
LegacyMigrationWitness ==
    /\ lastCall.op = "getStoredDocuments"
    /\ \E r \in StoredRecords :
          /\ ~Has(r, "versions")
          /\ {"lastModifiedBy", "sharedWith", "contextFileNames"} \subseteq DOMAIN r

\* what getKnowledgeFiles() returns for the item under the knowledge base key
FilesListed(blob) == getKnowledgeFiles(blob).result
FilesReadable(blob) == getKnowledgeFiles(blob).err = NoError

\* C11  Knowledge file repository, for calls on a readable store that accepts
\* the rewritten collection: getKnowledgeFiles() returns all the stored files,
\* newest createdAt first; saveKnowledgeFile(f) leaves the count unchanged and
\* f in place of the file of its id when the id is stored, and makes the
\* count one more when it is not; deleteKnowledgeFile(id) with an id that is
\* not stored throws nothing and leaves the result of getKnowledgeFiles().
KnowledgeFileRepository ==
    [][\A before \in {FilesListed(kbStore)}, after \in {FilesListed(kbStore')} :
          /\ (Parses(kbStore') /\ lastCall'.op \in {"getKnowledgeFiles", "saveKnowledgeFile"})
                => /\ Len(after) = Len(kbStore'.recs)
                   /\ Range(after) = Range(kbStore'.recs)
                   /\ \A i, j \in 1..Len(after) :
                          i < j => FileTime(after[i]) >= FileTime(after[j])
          /\ (lastCall'.op = "saveKnowledgeFile" /\ lastCall'.err = NoError)
                => \A f \in {lastCall'.arg} :
                      /\ f \in Range(after)
                      /\ Others(after, f.id) = Others(before, f.id)
                      /\ Len(after) = IF f.id \in IdsOf(before)
                                      THEN Len(before) ELSE Len(before) + 1
          /\ lastCall'.op = "deleteKnowledgeFile"
                => \A fileId \in (FileIds \cup {UnknownId}) \ IdsOf(before) :
                      (FilesReadable(kbStore) /\ DeleteKnowledgeFileCall(fileId, FALSE))
                          => /\ lastCall'.err = NoError
                             /\ after = before]_vars

\* a stored file was replaced by one of the same id, another file is stored,
\* and the stored order is not the order getKnowledgeFiles() returns
KnowledgeFileWitness ==
    /\ lastCall.op = "saveKnowledgeFile"
    /\ lastCall.err = NoError
    /\ lastCall.hit
    /\ Len(FilesListed(kbStore)) = 2
    /\ FilesListed(kbStore) # kbStore.recs

\* an id that is not stored was deleted from a store holding files
KnowledgeFileDeleteWitness ==
    /\ lastCall.op = "deleteKnowledgeFile"
    /\ lastCall.err = NoError
    /\ ~lastCall.hit
    /\ Len(FilesListed(kbStore)) >= 1

\* handleSaveDiagram ran its updater on a section that exists
DiagramPatched(event, doc) ==
    /\ event.name = "handleSaveDiagram"
    /\ Has(event, "sectionIndex") /\ Has(event, "blockIndex")
    /\ Len(doc.versions) > 0
    /\ Defined(LatestSections(doc), event.sectionIndex)

\* C12  Diagram patch locality: when the section text holds n fenced mermaid
\* blocks and blockIndex is one of 0..n-1, the text after the patch is the
\* text before it with the lines between the fences of block blockIndex
\* replaced by newCode, and nothing else changed.
PatchLocality ==
    [][(DiagramPatched(lastEvent', editableDoc) /\ ~hasError')
       => \A e \in {lastEvent'} :
          \A content \in {At(LatestSections(editableDoc), e.sectionIndex).content} :
          \A blocks \in {MermaidBlocks(content)} :
             Defined(blocks, e.blockIndex)
                => At(LatestSections(editableDoc'), e.sectionIndex).content
                     = SubSeq(content, 1, At(blocks, e.blockIndex).open)
                         \o e.newCode
                         \o SubSeq(content, At(blocks, e.blockIndex).close, Len(content))]_vars

\* C13  Diagram patch bounds: when blockIndex names no mermaid block of the
\* section (it is negative, or not less than the number of blocks), the
\* working copy is left as it is and no repository call is made: the
\* stored item is unchanged.
PatchBounds ==
    [][DiagramPatched(lastEvent', editableDoc)
       => \A e \in {lastEvent'} :
          \A content \in {At(LatestSections(editableDoc), e.sectionIndex).content} :
             ~Defined(MermaidBlocks(content), e.blockIndex)
                => /\ editableDoc' = editableDoc
                   /\ docStore' = docStore
                   /\ lastCall' = lastCall]_vars

\* the documents of seq with the id of doc
WithId(seq, doc) == SelectSeq(seq, LAMBDA d : d.id = doc.id)

\* C14  Immediate persistence: once handleAddComment has appended a comment
\* to a section of the working copy, or handleSaveDiagram has changed the
\* text of a section, getStoredDocuments() returns exactly one document of
\* that id and its section shows the comment as its last one, respectively
\* the patched text, whether or not the viewer is in edit mode.
ImmediatePersistence ==
    [][(lastEvent'.name \in {"handleAddComment", "handleSaveDiagram"}
        /\ ~hasError' /\ editableDoc' # editableDoc)
       => \A stored \in {WithId(Listed(docStore'), editableDoc)} :
             /\ Len(stored) = 1
             /\ Len(stored[1].versions) = Len(editableDoc'.versions)
             /\ lastEvent'.name = "handleAddComment"
                   => \A i \in {commentsState.sectionIndex} :
                         /\ CommentsOf(At(LatestSections(stored[1]), i))
                              = Append(CommentsOf(At(LatestSections(editableDoc), i)),
                                       lastEvent'.comment)
                         /\ At(LatestSections(stored[1]), i)
                              = At(LatestSections(editableDoc'), i)
             /\ lastEvent'.name = "handleSaveDiagram"
                   => \A i \in {editorState.sectionIndex} :
                         /\ At(LatestSections(stored[1]), i).content
                              = At(LatestSections(editableDoc'), i).content
                         /\ At(LatestSections(stored[1]), i).content
                              # At(LatestSections(editableDoc), i).content]_vars

\* a comment was appended and saved in edit mode, without Save Changes
ImmediatePersistenceWitness ==
    /\ lastEvent.name = "handleAddComment"
    /\ lastCall.op = "saveDocument" /\ lastCall.err = NoError
    /\ isEditing
    /\ CommentCount(editableDoc) > CommentCount(activeDocument)

\* a diagram block was patched and saved
DiagramPersistenceWitness ==
    /\ lastEvent.name = "handleSaveDiagram"
    /\ lastCall.op = "saveDocument" /\ lastCall.err = NoError
    /\ ~hasError
    /\ LatestSections(editableDoc)[1].content # LatestSections(activeDocument)[1].content

\* a is b with some elements left out: the elements of a occur in b in the
\* same relative order
RECURSIVE Embeds(_, _)
Embeds(a, b) ==
    IF a = <<>> THEN TRUE
    ELSE IF b = <<>> THEN FALSE
    ELSE IF Head(a) = Head(b) THEN Embeds(Tail(a), Tail(b))
    ELSE Embeds(a, Tail(b))

\* C15  Comments are append-only: across every viewer action, while the
\* document stays stored with the same sections, each comment
\* getStoredDocuments() showed in a section before the action is still
\* shown in that section after it, unchanged and in the same relative order.
CommentsAppendOnly ==
    [][\A before \in {WithId(Listed(docStore), ViewedDocument)},
          after \in {WithId(Listed(docStore'), ViewedDocument)} :
          (/\ Len(before) = 1 /\ Len(after) = 1
           /\ Len(LatestSections(after[1])) = Len(LatestSections(before[1])))
          => \A i \in 1..Len(LatestSections(before[1])) :
                Embeds(CommentsOf(LatestSections(before[1])[i]),
                       CommentsOf(LatestSections(after[1])[i]))]_vars

\* the latest version of doc
Latest(doc) == doc.versions[Len(doc.versions)]

\* C16  Draft/discard: Cancel makes no repository call and leaves the stored
\* item; the title and the section titles of the stored document change
\* only in a Save Changes step, and a section text changes only in a Save
\* Changes step or a diagram patch, so that edits pending when a comment is
\* appended are not stored with it.
DraftDiscard ==
    [][/\ lastEvent'.name = "handleCancelEdit"
             => (docStore' = docStore /\ lastCall' = lastCall)
       /\ \A before \in {WithId(Listed(docStore), ViewedDocument)},
             after \in {WithId(Listed(docStore'), ViewedDocument)} :
             (/\ Len(before) = 1 /\ Len(after) = 1
              /\ lastEvent'.name # "handleSaveChanges")
             => /\ Latest(after[1]).title = Latest(before[1]).title
                /\ Len(LatestSections(after[1])) = Len(LatestSections(before[1]))
                /\ \A i \in 1..Len(LatestSections(before[1])) :
                      /\ LatestSections(after[1])[i].title
                           = LatestSections(before[1])[i].title
                      /\ \/ LatestSections(after[1])[i].content
                              = LatestSections(before[1])[i].content
                         \/ lastEvent'.name = "handleSaveDiagram"]_vars

\* every property of a other than k is a property of b with the same value,
\* and the other way round
SameExcept(a, b, k) ==
    /\ DOMAIN a \ {k} = DOMAIN b \ {k}
    /\ \A f \in DOMAIN a \ {k} : a[f] = b[f]

\* the document has versions and its latest version a section at index i
Addressed(doc, i) ==
    /\ Len(doc.versions) > 0
    /\ Defined(LatestSections(doc), i)

\* C17  handleSectionChange with a sectionIndex outside the section list of
\* the latest version, or on a document with no versions, leaves the working
\* copy as it is and throws nothing, and so does handleTitleChange on a
\* document with no versions.
EditOutOfRangeNoOp ==
    [][/\ (/\ lastEvent'.name = "handleSectionChange"
           /\ ~Addressed(editableDoc, lastEvent'.sectionIndex))
          => (editableDoc' = editableDoc /\ ~hasError' /\ docStore' = docStore)
       /\ (lastEvent'.name = "handleTitleChange" /\ Len(editableDoc.versions) = 0)
          => (editableDoc' = editableDoc /\ ~hasError' /\ docStore' = docStore)]_vars

\* a section edit was made one past the last section of a document that has
\* sections
EditOutOfRangeWitness ==
    /\ lastEvent.name = "handleSectionChange"
    /\ Len(editableDoc.versions) > 0
    /\ lastEvent.sectionIndex = Len(LatestSections(editableDoc))

\* a title edit was made on a document with no versions
TitleNoVersionsWitness ==
    /\ lastEvent.name = "handleTitleChange"
    /\ Len(editableDoc.versions) = 0

\* C18  Mutator frame: a title edit, a section field edit and a comment
\* append leave the id, createdAt and sharedWith of the document, the number
\* of versions and every earlier version; in the latest version the title
\* edit changes nothing but the title, and the other two nothing but the
\* section at sectionIndex, in which the section edit changes nothing but
\* the named field and the comment append nothing but the comment list.  The
\* document the viewer was given is not modified.
MutatorFrame ==
    [][(lastEvent'.name \in {"handleTitleChange", "handleSectionChange", "handleAddComment"}
        /\ ~hasError' /\ Len(editableDoc.versions) > 0)
       => \A old \in {editableDoc}, new \in {editableDoc'} :
          /\ activeDocument' = activeDocument
          /\ SameExcept(new, old, "versions")
          /\ Len(new.versions) = Len(old.versions)
          /\ SubSeq(new.versions, 1, Len(old.versions) - 1)
               = SubSeq(old.versions, 1, Len(old.versions) - 1)
          /\ lastEvent'.name = "handleTitleChange"
                => SameExcept(Latest(new), Latest(old), "title")
          /\ lastEvent'.name \in {"handleSectionChange", "handleAddComment"}
                => /\ SameExcept(Latest(new), Latest(old), "sections")
                   /\ Len(LatestSections(new)) = Len(LatestSections(old))
                   /\ \A i \in {IF lastEvent'.name = "handleSectionChange"
                                THEN lastEvent'.sectionIndex
                                ELSE IF Has(commentsState, "sectionIndex")
                                     THEN commentsState.sectionIndex ELSE 0 - 1} :
                         /\ \A j \in 1..Len(LatestSections(old)) :
                               j # i + 1 => LatestSections(new)[j] = LatestSections(old)[j]
                         /\ Defined(LatestSections(old), i)
                               => SameExcept(At(LatestSections(new), i),
                                             At(LatestSections(old), i),
                                             IF lastEvent'.name = "handleSectionChange"
                                             THEN lastEvent'.field ELSE "comments")]_vars

\* the text of a section that carries comments was edited in a document with
\* an earlier version and a sharedWith list
MutatorFrameWitness ==
    /\ lastEvent.name = "handleSectionChange"
    /\ lastEvent.field = "content"
    /\ Len(editableDoc.versions) = 2
    /\ Has(editableDoc, "sharedWith")
    /\ Defined(LatestSections(editableDoc), lastEvent.sectionIndex)
    /\ At(LatestSections(editableDoc), lastEvent.sectionIndex).content = lastEvent.value
    /\ Len(CommentsOf(At(LatestSections(editableDoc), lastEvent.sectionIndex))) > 0

\* C19  appendComment: after handleAddComment on an existing section the
\* comment list of the section is the list it had (empty when it had none)
\* followed by the new comment.
AppendComment ==
    [][(/\ lastEvent'.name = "handleAddComment"
        /\ ~hasError'
        /\ Has(commentsState, "sectionIndex")
        /\ Addressed(editableDoc, commentsState.sectionIndex))
       => \A i \in {commentsState.sectionIndex} :
             /\ Has(At(LatestSections(editableDoc'), i), "comments")
             /\ At(LatestSections(editableDoc'), i).comments
                  = CommentsOf(At(LatestSections(editableDoc), i))
                       \o <<lastEvent'.comment>>]_vars

\* a comment was appended to a section that had two
AppendCommentWitness ==
    /\ lastEvent.name = "handleAddComment"
    /\ ~hasError
    /\ Has(commentsState, "sectionIndex")
    /\ Len(editableDoc.versions) > 0
    /\ Defined(LatestSections(editableDoc), commentsState.sectionIndex)
    /\ Len(At(LatestSections(editableDoc), commentsState.sectionIndex).comments) = 3

\* a comment was appended to a section that had none
FirstCommentWitness ==
    /\ lastEvent.name = "handleAddComment"
    /\ ~hasError
    /\ Has(commentsState, "sectionIndex")
    /\ Len(editableDoc.versions) > 0
    /\ Defined(LatestSections(editableDoc), commentsState.sectionIndex)
    /\ CommentsOf(At(LatestSections(editableDoc), commentsState.sectionIndex))
          = <<lastEvent.comment>>

(***************************************************************************)
(* Dashboard search: fuzzySearchAndRank.  A string the code looks inside   *)
(* is the sequence of its characters.                                      *)
(***************************************************************************)

LowerOf == [A |-> "a", B |-> "b", C |-> "c", D |-> "d", E |-> "e", F |-> "f", G |-> "g", H |-> "h", I |-> "i", J |-> "j", K |-> "k", L |-> "l",
            M |-> "m", N |-> "n", O |-> "o", P |-> "p", Q |-> "q", R |-> "r", S |-> "s", T |-> "t", U |-> "u", V |-> "v", W |-> "w", X |-> "x", Y |-> "y", Z |-> "z"]

\* String.prototype.toLowerCase
toLowerCase(str) ==
    [i \in 1..Len(str) |-> IF str[i] \in DOMAIN LowerOf THEN LowerOf[str[i]] ELSE str[i]]

WhiteSpace == {" ", "\t", "\n"}

\* String.prototype.trim
trim(str) ==
    LET kept == {i \in 1..Len(str) : str[i] \notin WhiteSpace} IN
    IF kept = {} THEN <<>>
    ELSE SubSeq(str, CHOOSE i \in kept : \A j \in kept : i <= j,
                     CHOOSE i \in kept : \A j \in kept : j <= i)

\* String.prototype.split with a separator of one character
RECURSIVE split(_, _)
split(str, separator) ==
    LET at == {i \in 1..Len(str) : str[i] = separator} IN
    IF at = {} THEN <<str>>
    ELSE LET first == CHOOSE i \in at : \A j \in at : i <= j
         IN <<SubSeq(str, 1, first - 1)>> \o split(SubSeq(str, first + 1, Len(str)), separator)

\* Array.prototype.join
RECURSIVE join(_, _)
join(strs, separator) ==
    IF strs = <<>> THEN <<>>
    ELSE IF Len(strs) = 1 THEN strs[1]
    ELSE strs[1] \o separator \o join(Tail(strs), separator)

\* String.prototype.includes
includes(str, searchString) ==
    \E i \in 0..(Len(str) - Len(searchString)) :
        SubSeq(str, i + 1, i + Len(searchString)) = searchString

\* String.prototype.startsWith
startsWith(str, searchString) ==
    /\ Len(searchString) <= Len(str)
    /\ SubSeq(str, 1, Len(searchString)) = searchString

\* query.toLowerCase().split(' ').filter(t => t)
queryTokens(query) == SelectSeq(split(toLowerCase(query), " "), LAMBDA t : t # <<>>)

\* a title word that starts with the token adds nothing
tokenScore_NoPrefix(title, contextFiles, docType, token) ==
      (IF includes(title, token) THEN 10 ELSE 0)
    + (IF includes(contextFiles, token) THEN 5 ELSE 0)
    + (IF includes(docType, token) THEN 3 ELSE 0)

\* the body of queryTokens.forEach: what one token adds to the score
tokenScore(title, contextFiles, docType, token) ==
      (IF includes(title, token) THEN 10 ELSE 0)
    + (IF \E w \in 1..Len(split(title, " ")) : startsWith(split(title, " ")[w], token)
       THEN 5 ELSE 0)
    + (IF includes(contextFiles, token) THEN 5 ELSE 0)
    + (IF includes(docType, token) THEN 3 ELSE 0)

RECURSIVE forEachToken(_, _, _, _)
forEachToken(tokens, title, contextFiles, docType) ==
    IF tokens = <<>> THEN 0
    ELSE tokenScore(title, contextFiles, docType, Head(tokens))
         + forEachToken(Tail(tokens), title, contextFiles, docType)

\* the function mapped over documents: the score of one document
score(doc, tokens) ==
    IF Len(doc.versions) = 0 THEN 0
    ELSE LET latestVersion == doc.versions[Len(doc.versions)]
             title == toLowerCase(latestVersion.title)
             contextFiles ==
                 toLowerCase(join(IF Has(latestVersion, "contextFileNames")
                                  THEN latestVersion.contextFileNames ELSE <<>>, <<" ">>))
             docType == toLowerCase(latestVersion.docType)
         IN forEachToken(tokens, title, contextFiles, docType)

scoredDocuments(documents, tokens) ==
    [i \in 1..Len(documents) |-> [doc |-> documents[i], score |-> score(documents[i], tokens)]]

\* Array.prototype.sort with (a, b) => a.score - b.score: lower scores first
RECURSIVE sortByScore_Ascending(_)
sortByScore_Ascending(items) ==
    IF items = <<>> THEN <<>>
    ELSE LET sorted == sortByScore_Ascending(SubSeq(items, 1, Len(items) - 1))
             item == items[Len(items)]
             k == Cardinality({i \in 1..Len(sorted) : sorted[i].score <= item.score})
         IN SubSeq(sorted, 1, k) \o <<item>> \o SubSeq(sorted, k + 1, Len(sorted))

\* Array.prototype.sort with (a, b) => b.score - a.score: the sort is stable,
\* an item goes behind the items that score at least as much
RECURSIVE sortByScore(_)
sortByScore(items) ==
    IF items = <<>> THEN <<>>
    ELSE LET sorted == sortByScore(SubSeq(items, 1, Len(items) - 1))
             item == items[Len(items)]
             k == Cardinality({i \in 1..Len(sorted) : sorted[i].score >= item.score})
         IN SubSeq(sorted, 1, k) \o <<item>> \o SubSeq(sorted, k + 1, Len(sorted))

fuzzySearchAndRank(documents, query) ==
    IF trim(query) = <<>> THEN <<>>
    ELSE LET kept == SelectSeq(scoredDocuments(documents, queryTokens(query)),
                               LAMBDA item : item.score > 0)
             ranked == sortByScore(kept)
         IN [i \in 1..Len(ranked) |-> ranked[i].doc]

\* the longest list searched
MaxListed == 3

HighLevelDesign == <<"H", "i", "g", "h", "-", "L", "e", "v", "e", "l", " ", "D", "e", "s", "i", "g", "n">>
LowLevelDesign == <<"L", "o", "w", "-", "L", "e", "v", "e", "l", " ", "D", "e", "s", "i", "g", "n">>

SearchVersion(t, title, docType) ==
    [title |-> title, sections |-> <<DocumentSection>>, docType |-> docType,
     savedAt |-> t, savedBy |-> "user-1"]

\* documents of the dashboard; the third has no version, the latest version
\* of the fourth no longer carries the title of its first one
SearchDocuments ==
    {[id |-> "doc_1", createdAt |-> Iso(1),
      versions |-> <<SearchVersion(Iso(1), <<"A", "p", "i", " ", "D", "e", "s", "i", "g", "n">>, HighLevelDesign)>>],
     [id |-> "doc_2", createdAt |-> Iso(1),
      versions |-> <<SearchVersion(Iso(1), <<"D", "b">>, LowLevelDesign)
                       @@ [contextFileNames |-> <<<<"a", "p", "i", ".", "m", "d">>,
                                                  <<"d", "b", ".", "m", "d">>>>]>>],
     [id |-> "doc_3", createdAt |-> Iso(1), versions |-> <<>>],
     [id |-> "doc_4", createdAt |-> Iso(1),
      versions |-> <<SearchVersion(Iso(1), <<"A", "p", "i">>, LowLevelDesign),
                     SearchVersion(Iso(MaxTime), <<"L", "o", "g">>, LowLevelDesign)>>]}

\* the lists of at most MaxListed different documents
RECURSIVE ListsOf(_, _)
ListsOf(docs, n) ==
    IF n = 0 THEN {<<>>}
    ELSE ListsOf(docs, n - 1)
         \cup {Append(l, d) : l \in {m \in ListsOf(docs, n - 1) : Len(m) = n - 1},
                              d \in docs}

SearchLists ==
    {l \in ListsOf(SearchDocuments, MaxListed) :
        \A i, j \in 1..Len(l) : l[i] = l[j] => i = j}

\* what is typed into the search box
Queries ==
    {<<>>, <<" ">>, <<"\t">>,
     <<"a", "p", "i">>,
     <<" ", "A", "P", "I", " ">>,
     <<"d", "b", " ", "a", "p", "i">>,
     <<"d", "e", "s", "i", "g", "n">>,
     <<"d">>,
     <<"l", "o", " ", " ", "d">>,
     <<"x">>,
     <<"a", "p", "i", " ", "a", "p", "i">>,
     <<"d", "\t", "x">>}

InitSearch ==
    /\ docStore = NullBlob
    /\ kbStore = NullBlob
    /\ lastCall = InitialCall
    /\ turn = 0
    /\ currentView = "dashboard"
    /\ allDocuments \in SearchLists
    /\ activeDocument = NullDocument
    /\ hasError = FALSE
    /\ appErrors = {}
    /\ ViewerUnmounted
    /\ lastEvent = NoEvent

\* the dashboard renders with a search query
Search(query) ==
    /\ Fresh
    /\ lastEvent' = Event("fuzzySearchAndRank",
                          [documents |-> allDocuments, query |-> query,
                           result |-> fuzzySearchAndRank(allDocuments, query)])
    /\ UNCHANGED <<docStore, kbStore, lastCall, turn, appVars, viewerVars>>

NextSearch == \E query \in Queries : Search(query)

SpecSearch == InitSearch /\ [][NextSearch]_vars

\* the number of places of seq that hold x
Occurrences(seq, x) == Cardinality({i \in 1..Len(seq) : seq[i] = x})

\* the token occurs in the lowercased title, context file names or docType
\* of the latest version of the document
TokenMatches(doc, token) ==
    /\ Len(doc.versions) > 0
    /\ \E v \in {doc.versions[Len(doc.versions)]} :
          \/ includes(toLowerCase(v.title), token)
          \/ includes(toLowerCase(v.docType), token)
          \/ /\ Has(v, "contextFileNames")
             /\ includes(toLowerCase(join(v.contextFileNames, <<" ">>)), token)

\* C20  Ranking: for a query that is not blank the result of
\* fuzzySearchAndRank holds each input document that scores more than zero
\* as often as the input does and no other document, its scores never
\* increase from one place to the next, and no document appears in it that
\* none of the query's tokens matches.
Ranking ==
    (lastEvent.name = "fuzzySearchAndRank" /\ trim(lastEvent.query) # <<>>)
    => \A tokens \in {queryTokens(lastEvent.query)}, result \in {lastEvent.result} :
          /\ \A d \in SearchDocuments :
                Occurrences(result, d) =
                   IF score(d, tokens) > 0 THEN Occurrences(lastEvent.documents, d) ELSE 0
          /\ \A i \in 1..Len(result) : result[i] \in SearchDocuments
          /\ \A i, j \in 1..Len(result) :
                i < j => score(result[i], tokens) >= score(result[j], tokens)
          /\ \A i \in 1..Len(result) :
                \E t \in 1..Len(tokens) : TokenMatches(result[i], tokens[t])

\* a search of two tokens put a later document in front of an earlier one
\* and left a third document out
RankingWitness ==
    /\ lastEvent.name = "fuzzySearchAndRank"
    /\ Len(queryTokens(lastEvent.query)) = 2
    /\ Len(lastEvent.documents) = 3
    /\ Len(lastEvent.result) = 2
    /\ lastEvent.result[1] = lastEvent.documents[2]
    /\ lastEvent.result[2] = lastEvent.documents[1]
    /\ score(lastEvent.result[1], queryTokens(lastEvent.query))
         > score(lastEvent.result[2], queryTokens(lastEvent.query))

\* C21  Version history: each Save Changes that the store accepts leaves the
\* stored document with one version more than it had, the versions it had
\* unchanged in front of the new one.
VersionHistory ==
    [][(/\ lastEvent'.name = "handleSaveChanges"
        /\ lastCall'.op = "saveDocument" /\ lastCall'.err = NoError)
       => \A before \in {WithId(Listed(docStore), editableDoc)},
             after \in {WithId(Listed(docStore'), editableDoc)} :
             Len(before) = 1
             => /\ Len(after) = 1
                /\ Len(after[1].versions) = Len(before[1].versions) + 1
                /\ SubSeq(after[1].versions, 1, Len(before[1].versions))
                     = before[1].versions]_vars

\* C22  Assistant replacement: once a reply of the assistant has been
\* applied and saved, the last version of the stored document, as
\* getStoredDocuments() returns it, has the title, the docType and the
\* sections of the reply.
AssistantReplacement ==
    [][(/\ lastEvent'.name = "handleSendMessageToAgent"
        /\ Has(lastEvent', "updatedDoc")
        /\ lastCall'.op = "saveDocument" /\ lastCall'.err = NoError)
       => \A stored \in {WithId(Listed(docStore'), agentRequest.doc)} :
             /\ Len(stored) = 1
             /\ Latest(stored[1]).title = lastEvent'.updatedDoc.title
             /\ Latest(stored[1]).docType = lastEvent'.updatedDoc.docType
             /\ Latest(stored[1]).sections = lastEvent'.updatedDoc.sections]_vars

\* w if cond holds, else nothing
Weight(cond, w) == IF cond THEN w ELSE 0

\* the sum of f[1] .. f[n]
RECURSIVE SumTo(_, _)
SumTo(f, n) == IF n = 0 THEN 0 ELSE f[n] + SumTo(f, n - 1)

\* the words of a text: the stretches between its spaces
Words(text) == Range(split(text, " "))

\* the score as stated: over the places of the token list, 10 for a title
\* that contains the token, 5 for a title word that begins with it, 5 for
\* context file names that contain it and 3 for a docType that contains it,
\* all lowercased and of the latest version
StatedScore(doc, query) ==
    LET tokens == SelectSeq(split(toLowerCase(query), " "), LAMBDA t : Len(t) > 0)
        v == Latest(doc)
        names == IF Has(v, "contextFileNames") THEN v.contextFileNames ELSE <<>>
        each == [t \in 1..Len(tokens) |->
                   Weight(includes(toLowerCase(v.title), tokens[t]), 10)
                 + Weight(\E w \in Words(toLowerCase(v.title)) :
                              startsWith(w, tokens[t]), 5)
                 + Weight(includes(toLowerCase(join(names, <<" ">>)), tokens[t]), 5)
                 + Weight(includes(toLowerCase(v.docType), tokens[t]), 3)]
    IN SumTo(each, Len(tokens))

\* C23  Ranking score: the score fuzzySearchAndRank gives a document that has
\* versions is the sum over the query's tokens (lowercased, split at single
\* spaces, empty ones dropped, repeated ones counted again) of 10, 5, 5 and 3
\* for the four kinds of match with the latest version.
RankingScore ==
    lastEvent.name = "fuzzySearchAndRank"
    => \A i \in 1..Len(lastEvent.documents) :
          Len(lastEvent.documents[i].versions) > 0
          => score(lastEvent.documents[i], queryTokens(lastEvent.query))
               = StatedScore(lastEvent.documents[i], lastEvent.query)

\* a query that repeats a token was scored against a document whose title
\* has a word beginning with it and against one that had such a title only
\* in an earlier version
RankingScoreWitness ==
    /\ lastEvent.name = "fuzzySearchAndRank"
    /\ lastEvent.query = <<"a", "p", "i", " ", "a", "p", "i">>
    /\ \E i, j \in 1..Len(lastEvent.documents) :
          /\ score(lastEvent.documents[i], queryTokens(lastEvent.query)) = 30
          /\ Len(lastEvent.documents[j].versions) = 2
          /\ score(lastEvent.documents[j], queryTokens(lastEvent.query)) = 0

\* C24  Canonical shape wins: after a saveDocument or deleteDocument call
\* that succeeded, the item under the documents key parses and every record
\* in it has a versions array, whatever records the item held before.
CanonicalShapeWins ==
    (lastCall.op \in {"saveDocument", "deleteDocument"} /\ lastCall.err = NoError)
        => /\ Parses(docStore)
           /\ \A r \in StoredRecords : Has(r, "versions") /\ IsArray(r.versions)

\* a document was saved into a store that held a legacy record of another
\* id: the record is stored with the one version migration made of it,
\* which has the title of the legacy record
CanonicalShapeWitness ==
    /\ lastCall.op = "saveDocument" /\ lastCall.err = NoError
    /\ \E r \in StoredRecords :
          /\ r.id # lastCall.arg.id
          /\ Has(r, "versions") /\ IsArray(r.versions)
          /\ Len(r.versions) = 1
          /\ r.versions[1].title = "Legacy"
          /\ ~Has(r, "title")

\* this step is a write of the viewer that the store rejected for capacity:
\* Save Changes or the saving of an assistant reply, which always call
\* saveDocument, or a comment append or diagram patch whose save threw
WriteRejected ==
    /\ turn' # turn
    /\ lastCall'.op = "saveDocument" /\ lastCall'.err = StorageFullDocuments
    /\ \/ lastEvent'.name = "handleSaveChanges"
       \/ lastEvent'.name = "handleSendMessageToAgent" /\ Has(lastEvent', "updatedDoc")
       \/ /\ lastEvent'.name \in {"handleAddComment", "handleSaveDiagram"}
          /\ hasError' /\ ~hasError

\* C25  Capacity exhaustion is always reported: when the store rejects a
\* write of the viewer for capacity, a banner with the storage-full message
\* is shown, the application is still there and the viewer is in edit mode
\* if it was.
CapacityReported ==
    [][WriteRejected
       => /\ \E m \in appErrors' : m[Len(m)] = StorageFullDocuments
          /\ ~hasError'
          /\ isEditing' = isEditing]_vars

\* C26  Committed edits are durable within a viewer session: after Cancel the
\* working copy is the document stored under its id, so that what Save
\* Changes has persisted is what later saves of the session start from.
CommittedEditsDurable ==
    [][lastEvent'.name = "handleCancelEdit"
       => \A stored \in {WithId(Listed(docStore'), editableDoc')} :
             Len(stored) = 1 => editableDoc' = stored[1]]_vars

\* C27  No lost update across an assistant request in flight: when the reply
\* of the assistant has been applied and saved and the stored document has
\* the sections it had, each comment that was stored in a section just
\* before, those appended while the request was pending included, is still
\* stored in that section, in the same relative order.
NoLostUpdate ==
    [][(/\ lastEvent'.name = "handleSendMessageToAgent"
        /\ Has(lastEvent', "updatedDoc")
        /\ lastCall'.op = "saveDocument" /\ lastCall'.err = NoError)
       => \A before \in {WithId(Listed(docStore), agentRequest.doc)},
             after \in {WithId(Listed(docStore'), agentRequest.doc)} :
             (/\ Len(before) = 1 /\ Len(after) = 1
              /\ Len(LatestSections(after[1])) = Len(LatestSections(before[1])))
             => \A i \in 1..Len(LatestSections(before[1])) :
                   Embeds(CommentsOf(LatestSections(before[1])[i]),
                          CommentsOf(LatestSections(after[1])[i]))]_vars

\* no two places of the array stored in the item hold records of the same id
DistinctIds(blob) ==
    Parses(blob) => \A i, j \in 1..Len(blob.recs) :
                       blob.recs[i].id = blob.recs[j].id => i = j

\* C28  Unique ids: from a store that is empty or holds records of pairwise
\* different ids, whatever saveDocument / deleteDocument and
\* saveKnowledgeFile / deleteKnowledgeFile calls are made, neither stored
\* collection ever holds two records of the same id.
UniqueIds == DistinctIds(docStore) /\ DistinctIds(kbStore)

\* a knowledge file was saved under an id that was stored already, next to a
\* file of another id, and two documents are stored
UniqueIdsWitness ==
    /\ lastCall.op = "saveKnowledgeFile" /\ lastCall.err = NoError /\ lastCall.hit
    /\ Parses(kbStore) /\ Len(kbStore.recs) = 2
    /\ Parses(docStore) /\ Len(docStore.recs) = 2

\* C29  Failure atomicity of writes: when saveDocument, deleteDocument,
\* saveKnowledgeFile or deleteKnowledgeFile throws, both items are what they
\* were before the call.
FailureAtomicity ==
    [][(/\ turn' # turn
        /\ lastCall'.op \in {"saveDocument", "deleteDocument",
                             "saveKnowledgeFile", "deleteKnowledgeFile"}
        /\ lastCall'.err # NoError)
       => (docStore' = docStore /\ kbStore' = kbStore)]_vars

\* C30  The diagram editor never saves unvalidated code: the text the modal
\* hands to onSave is the previewCode that the last syntax check found valid.
ValidatedSave ==
    [][(lastEvent'.name = "handleSaveDiagram" /\ modal.mounted)
       => /\ MermaidParses(lastEvent'.newCode)
          /\ lastEvent'.newCode = modal.previewCode
          /\ ~modal.error]_vars

====
